---- MODULE Spec2Model ----
(***************************************************************************)
(* BioLit Miner: the three LLM pipelines of src/biolit_miner               *)
(*   - MethodExtractor   (method_extractor.py)                             *)
(*   - CodeGenerator     (code_generator.py)                               *)
(*   - InteractiveQA     (qa_interface.py)                                 *)
(* and the Streamlit session that drives them (app.py).                    *)
(* Each pipeline has its own specification (SpecExtract, SpecGen, SpecQA;  *)
(* SpecAsk, SpecReload, SpecSnapshot, SpecParse, SpecTemplate and SpecApp  *)
(* for parts of them, SpecCalls for all three together, SpecSession for    *)
(* the reruns of app.py in one browser session) over the shared variables; *)
(* a specification leaves the variables of the other parts unchanged.      *)
(***************************************************************************)
EXTENDS Integers, Sequences, FiniteSets, TLC

(***************************************************************************)
(* Bounds of the model.                                                    *)
(***************************************************************************)
\* longest Gateway reply to the extraction prompt, in tokens
MaxReplyLen == 3
\* most computational methods handed to one code-generation call
MaxMethods == 3
\* most successful ask_question calls in one behaviour of the Q&A engine
MaxAsks == 11
\* most successful ask_question calls of an engine under all its operations
MaxAsksQ == 2
\* most constructions, and most pipeline operations, in one session of the
\* application
MaxClicks == 6

(***************************************************************************)
(* Python values.  A value is a record tagged with its type, so that None, *)
(* strings, lists and dicts can be told apart and stored side by side.     *)
(***************************************************************************)
None == [ty |-> "null"]
PyStr(s) == [ty |-> "str", v |-> s]
PyList(s) == [ty |-> "list", v |-> s]
PyDict(f) == [ty |-> "dict", v |-> f]
EmptyDict == [k \in {} |-> None]

\* The outcome of a call: a returned value or a raised exception.  The
\* message of an exception is the chain of its f-string segments,
\* f"prefix: {e}" being <<prefix>> \o str(e).
Return(v) == [kind |-> "return", value |-> v]
Raise(type, msg) == [kind |-> "raise", type |-> type, msg |-> msg]
Raised(o) == o.kind = "raise"

Min(a, b) == IF a < b THEN a ELSE b
Max(a, b) == IF a > b THEN a ELSE b

\* s[a:b] of Python for 0 <= a and 0 <= b <= len(s)
PySlice(s, a, b) == SubSeq(s, a + 1, b)
\* s[-n:] of Python for n > 0
PyLastN(s, n) == SubSeq(s, Max(1, Len(s) - n + 1), Len(s))

\* all sequences over S of length at most n
SeqUpTo(S, n) == UNION {[1..k -> S] : k \in 0..n}


(***************************************************************************)
(* method_extractor.py: the record types.  A dataclass instance is the     *)
(* function from its field names to the values of the fields.              *)
(***************************************************************************)
MethodFields ==
    {"name", "description", "software_tools", "programming_languages",
     "parameters", "category"}
DatasetRequired == {"name", "description", "source", "format"}
DatasetOptional == {"size"}
WorkflowFields == {"name", "steps", "input_data", "output_data", "dependencies"}
TopKeys ==
    {"computational_methods", "datasets", "workflows", "key_findings",
     "reproducibility_notes"}

\* mutant of DataclassInit: a constructor that ignores unknown keywords and
\* fills missing fields with None
DataclassInit_lenient(required, optional, kw) ==
    IF kw.ty # "dict"
    THEN Raise("TypeError", <<"argument after ** must be a mapping">>)
    ELSE Return([f \in required \cup optional |->
                    IF f \in DOMAIN kw.v THEN kw.v[f] ELSE None])

\* The __init__ a dataclass generates, called as Class(**kw): kw must be a
\* mapping, every keyword must name a field, every field without a default
\* must be given; a field with default None that is not given is None.
DataclassInit(required, optional, kw) ==
    IF kw.ty # "dict"
    THEN Raise("TypeError", <<"argument after ** must be a mapping">>)
    ELSE IF DOMAIN kw.v \ (required \cup optional) # {}
    THEN Raise("TypeError", <<"got an unexpected keyword argument">>)
    ELSE IF required \ DOMAIN kw.v # {}
    THEN Raise("TypeError", <<"missing required positional argument">>)
    ELSE Return([f \in required \cup optional |->
                    IF f \in DOMAIN kw.v THEN kw.v[f] ELSE None])

ComputationalMethod(kw) == DataclassInit(MethodFields, {}, kw)
Dataset(kw) == DataclassInit(DatasetRequired, DatasetOptional, kw)
Workflow(kw) == DataclassInit(WorkflowFields, {}, kw)

\* [Class(**item) for item in v]: None is not iterable; a list is mapped
\* item by item and the first failing construction ends the comprehension;
\* a str or a dict iterates over strings, each of which fails under **.
Comprehension(Class(_), v) ==
    IF v.ty = "null"
    THEN Raise("TypeError", <<"'NoneType' object is not iterable">>)
    ELSE IF v.ty = "list"
    THEN LET outs == [i \in 1..Len(v.v) |-> Class(v.v[i])]
             bad == {i \in 1..Len(v.v) : Raised(outs[i])}
         IN  IF bad # {}
             THEN outs[CHOOSE i \in bad : \A j \in bad : i <= j]
             ELSE Return([i \in 1..Len(v.v) |-> outs[i].value])
    ELSE IF (v.ty = "str" /\ v.v = "") \/ (v.ty = "dict" /\ DOMAIN v.v = {})
    THEN Return(<<>>)
    ELSE Raise("TypeError", <<"argument after ** must be a mapping">>)

(***************************************************************************)
(* The text of a Gateway reply to the extraction prompt, as a sequence of  *)
(* tokens: a word of prose without braces, a lone "{", a lone "}", or the  *)
(* text of one well-formed JSON object (first character "{", last          *)
(* character "}") with the given members.                                  *)
(***************************************************************************)
TProse == [t |-> "x"]
TOpen == [t |-> "{"]
TClose == [t |-> "}"]
TObj(members) == [t |-> "obj", members |-> members]

\* mutant of find_open: rfind('{') in place of find('{')
find_open_last(text) ==
    LET hits == {i \in 1..Len(text) : text[i].t \in {"{", "obj"}}
    IN  IF hits = {} THEN -1
        ELSE (CHOOSE i \in hits : \A j \in hits : i >= j) - 1

\* result_text.find('{'): index of the first "{", from 0, or -1
find_open(text) ==
    LET hits == {i \in 1..Len(text) : text[i].t \in {"{", "obj"}}
    IN  IF hits = {} THEN -1
        ELSE (CHOOSE i \in hits : \A j \in hits : i <= j) - 1

\* result_text.rfind('}'): index of the last "}", from 0 (in tokens: of the
\* token it ends), or -1
rfind_close(text) ==
    LET hits == {i \in 1..Len(text) : text[i].t \in {"}", "obj"}}
    IN  IF hits = {} THEN -1
        ELSE (CHOOSE i \in hits : \A j \in hits : i >= j) - 1

\* json.loads on a token sequence: one object text, or "{" "}", is a JSON
\* document; the empty string and every other sequence are not.
json_loads(json_str) ==
    IF Len(json_str) = 1 /\ json_str[1].t = "obj"
    THEN Return(json_str[1].members)
    ELSE IF json_str = <<TOpen, TClose>>
    THEN Return(EmptyDict)
    ELSE Raise("JSONDecodeError", <<"Expecting value">>)

\* mutant of dict_get: data.get(key), without the default
dict_get_no_default(data, key, default) ==
    IF key \in DOMAIN data THEN data[key] ELSE None

\* data.get(key, default)
dict_get(data, key, default) == IF key \in DOMAIN data THEN data[key] ELSE default

\* the try block of _parse_extraction_result
parse_extraction_try(result_text) ==
    LET json_start == find_open(result_text)
        json_end == rfind_close(result_text) + 1
    IN  IF json_start = -1 \/ json_end = 0
        THEN Raise("ValueError", <<"No JSON found in response">>)
        ELSE
        LET data == json_loads(PySlice(result_text, json_start, json_end))
        IN  IF Raised(data) THEN data ELSE
        LET computational_methods ==
                Comprehension(ComputationalMethod,
                    dict_get(data.value, "computational_methods", PyList(<<>>)))
            datasets ==
                Comprehension(Dataset,
                    dict_get(data.value, "datasets", PyList(<<>>)))
            workflows ==
                Comprehension(Workflow,
                    dict_get(data.value, "workflows", PyList(<<>>)))
        IN  IF Raised(computational_methods) THEN computational_methods
            ELSE IF Raised(datasets) THEN datasets
            ELSE IF Raised(workflows) THEN workflows
            ELSE Return(
                [computational_methods |-> computational_methods.value,
                 datasets |-> datasets.value,
                 workflows |-> workflows.value,
                 key_findings |->
                     dict_get(data.value, "key_findings", PyList(<<>>)),
                 reproducibility_notes |->
                     dict_get(data.value, "reproducibility_notes", PyStr(""))])

\* _parse_extraction_result: the try block and its two handlers
parse_extraction_result(result_text) ==
    LET r == parse_extraction_try(result_text)
    IN  IF Raised(r) /\ r.type = "JSONDecodeError"
        THEN Raise("Exception", <<"Failed to parse JSON response">> \o r.msg)
        ELSE IF Raised(r)
        THEN Raise("Exception", <<"Failed to parse extraction result">> \o r.msg)
        ELSE r

\* A Gateway response: the reply text, or a failed call.
GatewayReply(text) == [ok |-> TRUE, text |-> text]
GatewayFailure == [ok |-> FALSE, error |-> <<"APIError">>]

\* the responses extract_methods takes from the Gateway: that of the one
\* client.messages.create in its try block, a reply or a failure
extract_methods_calls(gw) == <<gw>>

\* extract_methods, given what client.messages.create does
extract_methods(gw) ==
    IF ~gw.ok
    THEN Raise("Exception",
               <<"Failed to extract methods using Claude">> \o gw.error)
    ELSE LET r == parse_extraction_result(gw.text)
         IN  IF Raised(r)
             THEN Raise("Exception",
                        <<"Failed to extract methods using Claude">> \o r.msg)
             ELSE r

(***************************************************************************)
(* Persistence of an extraction result.  A JSON document is a JSON value:  *)
(* null, a string, an array or an object.                                  *)
(***************************************************************************)
JNull == [j |-> "null"]
JString(s) == [j |-> "string", s |-> s]
JArray(items) == [j |-> "array", items |-> items]
JObject(members) == [j |-> "object", members |-> members]

\* mutant of json_dump: None is written as the string "null"
RECURSIVE json_dump_none_as_string(_)
json_dump_none_as_string(obj) ==
    CASE obj.ty = "null" -> JString("null")
      [] obj.ty = "str" -> JString(obj.v)
      [] obj.ty = "list" ->
            JArray([i \in 1..Len(obj.v) |-> json_dump_none_as_string(obj.v[i])])
      [] obj.ty = "dict" ->
            JObject([k \in DOMAIN obj.v |-> json_dump_none_as_string(obj.v[k])])

\* json.dump of None, str, list and dict with str keys
RECURSIVE json_dump(_)
json_dump(obj) ==
    CASE obj.ty = "null" -> JNull
      [] obj.ty = "str" -> JString(obj.v)
      [] obj.ty = "list" -> JArray([i \in 1..Len(obj.v) |-> json_dump(obj.v[i])])
      [] obj.ty = "dict" -> JObject([k \in DOMAIN obj.v |-> json_dump(obj.v[k])])

\* json.load of a document
RECURSIVE json_load(_)
json_load(doc) ==
    CASE doc.j = "null" -> None
      [] doc.j = "string" -> PyStr(doc.s)
      [] doc.j = "array" -> PyList([i \in 1..Len(doc.items) |-> json_load(doc.items[i])])
      [] doc.j = "object" ->
            PyDict([k \in DOMAIN doc.members |-> json_load(doc.members[k])])

\* dataclasses.asdict of an ExtractedMethods: every instance becomes the dict
\* of its fields, every list a list
asdict(methods) ==
    LET dicts(instances) == PyList([i \in 1..Len(instances) |-> PyDict(instances[i])])
    IN  PyDict([computational_methods |-> dicts(methods.computational_methods),
                datasets |-> dicts(methods.datasets),
                workflows |-> dicts(methods.workflows),
                key_findings |-> methods.key_findings,
                reproducibility_notes |-> methods.reproducibility_notes])

\* save_extracted_methods: the document written to output_path
save_extracted_methods(methods) == json_dump(asdict(methods))

\* data[key]
dict_getitem(data, key) ==
    IF key \in DOMAIN data THEN Return(data[key]) ELSE Raise("KeyError", <<key>>)

\* load_extracted_methods of the document at input_path; the arguments of
\* ExtractedMethods(...) are evaluated in the order they are written
load_extracted_methods(document) ==
    LET data == json_load(document)
    IN  IF data.ty # "dict"
        THEN Raise("TypeError", <<"indices must be integers or slices, not str">>)
        ELSE
        LET item(key) == dict_getitem(data.v, key)
            built(Class(_), key) ==
                IF Raised(item(key)) THEN item(key)
                ELSE Comprehension(Class, item(key).value)
            computational_methods == built(ComputationalMethod, "computational_methods")
            datasets == built(Dataset, "datasets")
            workflows == built(Workflow, "workflows")
        IN  IF Raised(computational_methods) THEN computational_methods
            ELSE IF Raised(datasets) THEN datasets
            ELSE IF Raised(workflows) THEN workflows
            ELSE IF Raised(item("key_findings")) THEN item("key_findings")
            ELSE IF Raised(item("reproducibility_notes"))
            THEN item("reproducibility_notes")
            ELSE Return(
                [computational_methods |-> computational_methods.value,
                 datasets |-> datasets.value,
                 workflows |-> workflows.value,
                 key_findings |-> item("key_findings").value,
                 reproducibility_notes |-> item("reproducibility_notes").value])

(***************************************************************************)
(* Inputs of the extraction pipeline: the replies the Gateway may give.    *)
(***************************************************************************)
MethodItem(name, category) ==
    PyDict([name |-> PyStr(name), description |-> PyStr("d"),
            software_tools |-> PyList(<<PyStr("R")>>),
            programming_languages |-> PyList(<<PyStr("R")>>),
            parameters |-> PyDict(EmptyDict), category |-> PyStr(category)])
DatasetItem(name) ==
    PyDict([name |-> PyStr(name), description |-> PyStr("d"),
            source |-> PyStr("GEO"), format |-> PyStr("csv")])
WorkflowItem(name) ==
    PyDict([name |-> PyStr(name), steps |-> PyList(<<PyStr("s1")>>),
            input_data |-> PyList(<<>>), output_data |-> PyList(<<>>),
            dependencies |-> PyList(<<>>)])

\* a dict without key k, and a dict with key k set to v
Without(d, k) == PyDict([x \in DOMAIN d.v \ {k} |-> d.v[x]])
With(d, k, v) == PyDict([x \in DOMAIN d.v \cup {k} |-> IF x = k THEN v ELSE d.v[x]])

\* what a reply may carry under each top-level key; Absent: the key is omitted
Absent == [ty |-> "absent"]
MethodsValues ==
    {PyList(<<MethodItem("A", "X")>>),
     PyList(<<MethodItem("A", "X"), With(MethodItem("B", "Y"), "extra", PyStr("e"))>>),
     PyList(<<Without(MethodItem("B", "Y"), "category"), MethodItem("A", "X")>>)}
DatasetsValues ==
    {PyList(<<DatasetItem("D1"), With(DatasetItem("D2"), "size", PyStr("1GB"))>>),
     PyList(<<DatasetItem("D1"),
              With(Without(DatasetItem("D2"), "name"), "title", PyStr("D2"))>>)}
WorkflowsValues ==
    {PyList(<<WorkflowItem("W1")>>),
     PyList(<<With(WorkflowItem("W1"), "extra", PyStr("e"))>>)}
FindingsValues == {PyList(<<PyStr("f1")>>), None}
NotesValues == {PyStr("code on request"), None}

ReplyObjects ==
    {[k \in {k \in TopKeys : c[k] # Absent} |-> c[k]] :
        c \in [computational_methods : MethodsValues \cup {Absent},
               datasets : DatasetsValues \cup {Absent},
               workflows : WorkflowsValues \cup {Absent},
               key_findings : FindingsValues \cup {Absent},
               reproducibility_notes : NotesValues \cup {Absent}]}

\* every reply of at most MaxReplyLen tokens that holds prose, lone braces
\* and copies of one object
ExtractionReplies ==
    {[i \in 1..Len(shape) |->
        IF shape[i] = "obj" THEN TObj(members) ELSE [t |-> shape[i]]] :
        shape \in SeqUpTo({"x", "{", "}", "obj"}, MaxReplyLen),
        members \in ReplyObjects}

(***************************************************************************)
(* State.                                                                  *)
(***************************************************************************)
VARIABLES
    \* MethodExtractor: one extract_methods call
    pcE,        \* "idle" before the call, "done" after it
    gwE,        \* what the Gateway did in the call
    callsE,     \* how many Gateway calls the call made
    outE,       \* the outcome of the call
    fileE,      \* the document save_extracted_methods wrote, if any
    loadedE     \* the outcome of load_extracted_methods on that document

VARIABLES
    \* InteractiveQA: one engine
    paper_metadata,         \* self.paper_metadata
    extracted_methods,      \* self.extracted_methods
    conversation_history,   \* self.conversation_history
    now,                    \* the clock read by datetime.now()
    file,                   \* the conversation document last exported, and the history it was written from
    lastQ,                  \* the last operation: its arguments, Gateway call and outcome
    sinceEmpty,             \* the successful exchanges since the history was last empty,
                            \* each with the paper that was loaded when it was recorded
    snapshot                \* the list a caller got from get_conversation_history: its
                            \* items, and whether it is the list object the engine holds

VARIABLES
    \* CodeGenerator: one generate_code_from_methods call
    pcG,        \* "idle" before the call, "done" after it
    inG,        \* the arguments of the call
    gwG,        \* what the Gateway does for the prompt of each category
    outG,       \* the outcome of the call
    callsG,     \* the prompts sent to the Gateway, in call order
    requirementsG   \* the manifest generate_requirements_file wrote, if any

VARIABLES
    \* one session of the application
    envA,       \* the environment of the process
    pcA,        \* "off" before the process starts, then "running"
    qaA,        \* st.session_state.qa_interface, None while there is none
    checksA,    \* how many times a constructor has looked for the credential
    opsA,       \* how many pipeline operations have run
    usedA,      \* the credentials of the clients that have called the Gateway
    lastA       \* what the last step did

VARIABLES
    \* one browser session of the application and the runs of its script
    session_state,  \* st.session_state
    uploaded_file,  \* the file held by the uploader widget, if any
    nowS,           \* the clock read by the Q&A engine of the session
    lastS,          \* what the last run of the script did
    doneS           \* the stages completed since the session was new or reset, and
                    \* the paper the stored extraction result was extracted from

varsE == <<pcE, gwE, callsE, outE, fileE, loadedE>>
varsG == <<pcG, inG, gwG, outG, callsG, requirementsG>>
varsQ == <<paper_metadata, extracted_methods, conversation_history, now, file,
           lastQ, sinceEmpty, snapshot>>
varsA == <<envA, pcA, qaA, checksA, opsA, usedA, lastA>>
varsS == <<session_state, uploaded_file, nowS, lastS, doneS>>
vars == <<varsE, varsG, varsQ, varsA, varsS>>

NoOutcome == [kind |-> "none"]

\* MethodExtractor before its call
NoFile == [exists |-> FALSE]
IdleE ==
    /\ pcE = "idle"
    /\ gwE = GatewayFailure
    /\ callsE = 0
    /\ outE = NoOutcome
    /\ fileE = NoFile
    /\ loadedE = NoOutcome

\* InteractiveQA.__init__
NoOperation == [op |-> "none"]
NoSnapshot == [taken |-> FALSE, items |-> <<>>, shared |-> FALSE]
NewQ ==
    /\ paper_metadata = None
    /\ extracted_methods = None
    /\ conversation_history = <<>>
    /\ now = 1
    /\ file = NoFile
    /\ lastQ = NoOperation
    /\ sinceEmpty = <<>>
    /\ snapshot = NoSnapshot

\* CodeGenerator before its call
NoArguments == [given |-> FALSE]
IdleG ==
    /\ pcG = "idle"
    /\ inG = NoArguments
    /\ gwG = <<>>
    /\ outG = NoOutcome
    /\ callsG = <<>>
    /\ requirementsG = NoFile

\* the application before its process starts
IdleA ==
    /\ envA = EmptyDict
    /\ pcA = "off"
    /\ qaA = None
    /\ checksA = 0
    /\ opsA = 0
    /\ usedA = {}
    /\ lastA = NoOperation

\* a browser session before the first run of the script: st.session_state
\* has no key (the value kept under an absent key is a placeholder)
SessionKeys ==
    {"paper_metadata", "extracted_methods", "generated_code", "qa_interface",
     "current_step"}
NewSessionState ==
    [keys |-> {}, paper_metadata |-> None, extracted_methods |-> None,
     generated_code |-> <<>>, qa_interface |-> None, current_step |-> 0]
NoUpload == ""
NoRun == [click |-> "not run"]
NothingDone == [completed |-> {}, extracted_from |-> None]
NewS ==
    /\ session_state = NewSessionState
    /\ uploaded_file = NoUpload
    /\ nowS = 1
    /\ lastS = NoRun
    /\ doneS = NothingDone

Init == IdleE /\ IdleG /\ NewQ /\ IdleA /\ NewS

(***************************************************************************)
(* MethodExtractor.extract_methods: the Gateway fails or answers with any  *)
(* reply.                                                                  *)
(***************************************************************************)
ExtractMethods(replies) ==
    /\ pcE = "idle"
    /\ \E gw \in {GatewayFailure} \cup {GatewayReply(t) : t \in replies} :
        /\ gwE' = gw
        /\ callsE' = Len(extract_methods_calls(gw))
        /\ outE' = extract_methods(gw)
    /\ pcE' = "done"
    /\ UNCHANGED <<fileE, loadedE>>

\* MethodExtractor.save_extracted_methods of the result of the call
SaveExtractedMethods ==
    /\ pcE = "done" /\ outE.kind = "return"
    /\ fileE = NoFile
    /\ fileE' = [exists |-> TRUE, document |-> save_extracted_methods(outE.value)]
    /\ UNCHANGED <<pcE, gwE, callsE, outE, loadedE>>

\* MethodExtractor.load_extracted_methods of the saved document
LoadExtractedMethods ==
    /\ fileE.exists
    /\ loadedE = NoOutcome
    /\ loadedE' = load_extracted_methods(fileE.document)
    /\ UNCHANGED <<pcE, gwE, callsE, outE, fileE>>

NextE ==
    /\ \/ ExtractMethods(ExtractionReplies)
       \/ SaveExtractedMethods
       \/ LoadExtractedMethods
    /\ UNCHANGED <<varsG, varsQ, varsA, varsS>>
SpecExtract == Init /\ [][NextE]_vars

(***************************************************************************)
(* Properties of the extraction pipeline (SpecExtract).                    *)
(***************************************************************************)
ExtractionReplied == pcE = "done" /\ gwE.ok
ObjectsOf(text) == {text[i].members : i \in {j \in 1..Len(text) : text[j].t = "obj"}}

\* an element of a list that its record type accepts
WellFormedItem(item, required, optional) ==
    /\ item.ty = "dict"
    /\ required \subseteq DOMAIN item.v
    /\ DOMAIN item.v \subseteq required \cup optional
ListKeyFields(k) ==
    IF k = "computational_methods" THEN <<MethodFields, {}>>
    ELSE IF k = "datasets" THEN <<DatasetRequired, DatasetOptional>>
    ELSE <<WorkflowFields, {}>>
ListKeys == {"computational_methods", "datasets", "workflows"}
MalformedItems(members) ==
    {<<k, i>> \in UNION {{k} \X (1..Len(members[k].v)) : k \in ListKeys \cap DOMAIN members} :
        ~WellFormedItem(members[k].v[i], ListKeyFields(k)[1], ListKeyFields(k)[2])}

\* the reply is prose around exactly one JSON object, whose items are all
\* well formed
OneCleanObject(text) ==
    /\ Cardinality({i \in 1..Len(text) : text[i].t = "obj"}) = 1
    /\ \A i \in 1..Len(text) : text[i].t \in {"obj", "x"}
    /\ \A m \in ObjectsOf(text) : MalformedItems(m) = {}
TheObject(text) == CHOOSE m \in ObjectsOf(text) : TRUE

\* the record built from an item carries the item's fields
Carries(instance, item) == \A f \in DOMAIN item.v : instance[f] = item.v[f]

\* C7: a reply whose JSON object omits any of the five top-level keys is
\* extracted successfully; each omitted key takes its default (an empty list,
\* the empty string for reproducibility_notes) and each present key carries
\* the value of the reply.
C7_MissingKeysDefault ==
    (ExtractionReplied /\ OneCleanObject(gwE.text)) =>
        LET m == TheObject(gwE.text) IN
        /\ outE.kind = "return"
        /\ \A k \in ListKeys :
            IF k \in DOMAIN m
            THEN /\ Len(outE.value[k]) = Len(m[k].v)
                 /\ \A i \in 1..Len(m[k].v) : Carries(outE.value[k][i], m[k].v[i])
            ELSE outE.value[k] = <<>>
        /\ outE.value.key_findings =
            (IF "key_findings" \in DOMAIN m THEN m.key_findings ELSE PyList(<<>>))
        /\ outE.value.reproducibility_notes =
            (IF "reproducibility_notes" \in DOMAIN m
             THEN m.reproducibility_notes ELSE PyStr(""))

\* C7 witness: an object between prose that omits some keys and carries
\* others has been extracted.
C7_Witness ==
    /\ ExtractionReplied /\ OneCleanObject(gwE.text)
    /\ Len(gwE.text) = 3
    /\ DOMAIN TheObject(gwE.text) = {"datasets", "key_findings"}
    /\ outE.kind = "return"
    /\ outE.value.workflows = <<>>
    /\ Len(outE.value.datasets) = 2

\* C29 (the claim as stated): a result returned by extract_methods has no
\* null field: its three item lists are lists, and key_findings and
\* reproducibility_notes are not None, also when the reply carries a key with
\* the value null.
C29_NoNullField ==
    (ExtractionReplied /\ outE.kind = "return") =>
        /\ \A k \in ListKeys : Len(outE.value[k]) >= 0
        /\ outE.value.key_findings # None
        /\ outE.value.reproducibility_notes # None

\* the tokens from the first "{" to the last "}" of a reply, if both exist
HasOpen(text) == \E i \in 1..Len(text) : text[i].t \in {"{", "obj"}
HasClose(text) == \E i \in 1..Len(text) : text[i].t \in {"}", "obj"}
FirstOpen(text) == CHOOSE i \in 1..Len(text) :
    /\ text[i].t \in {"{", "obj"}
    /\ \A j \in 1..(i - 1) : text[j].t \notin {"{", "obj"}
LastClose(text) == CHOOSE i \in 1..Len(text) :
    /\ text[i].t \in {"}", "obj"}
    /\ \A j \in (i + 1)..Len(text) : text[j].t \notin {"}", "obj"}
Braced(text) == [i \in 1..(LastClose(text) - FirstOpen(text) + 1) |->
                    text[FirstOpen(text) + i - 1]]
ValidJson(tokens) ==
    \/ Len(tokens) = 1 /\ tokens[1].t = "obj"
    \/ Len(tokens) = 2 /\ tokens[1].t = "{" /\ tokens[2].t = "}"
Unparsable(text) ==
    \/ ~HasOpen(text)
    \/ ~HasClose(text)
    \/ LastClose(text) < FirstOpen(text)
    \/ ~ValidJson(Braced(text))
ParseMessages == {"Failed to parse JSON response", "Failed to parse extraction result"}
\* the exception left _parse_extraction_result
IsParseError(o) == Raised(o) /\ Len(o.msg) >= 2 /\ o.msg[2] \in ParseMessages

\* C8: the extraction parses the text from the first "{" to the last "}";
\* without a "{", without a "}", with the last "}" before the first "{", or
\* with that text not being JSON, it fails with a parse error and returns no
\* result; a result, when there is one, is read from that text.
C8_BracedSubstring ==
    ExtractionReplied =>
        /\ Unparsable(gwE.text) => IsParseError(outE)
        /\ outE.kind = "return" =>
            /\ ~Unparsable(gwE.text)
            /\ LET m == IF Braced(gwE.text)[1].t = "obj"
                        THEN Braced(gwE.text)[1].members ELSE EmptyDict
               IN  /\ outE.value.key_findings =
                        (IF "key_findings" \in DOMAIN m
                         THEN m.key_findings ELSE PyList(<<>>))
                   /\ \A k \in ListKeys :
                        Len(outE.value[k]) =
                            (IF k \in DOMAIN m THEN Len(m[k].v) ELSE 0)

\* C8 witness: a reply with a "}" before its only "{" has failed to parse.
C8_Witness ==
    /\ ExtractionReplied
    /\ gwE.text = <<TClose, TProse, TOpen>>
    /\ IsParseError(outE)

\* the kind of a failure as a caller can tell it: the exception class and
\* the leading segment of its message
ErrorKind(o) == <<o.type, o.msg[1]>>

\* C9 (the claim as stated): a reply that cannot be parsed surfaces as a
\* failure of another kind than a failed Gateway call, not wrapped into it.
C9_ParseFailureDistinct ==
    (ExtractionReplied /\ Raised(outE)) =>
        ErrorKind(outE) # ErrorKind(extract_methods(GatewayFailure))

\* C10: a reply holding an element of computational_methods, datasets or
\* workflows with an extra, misnamed or missing required field is never
\* extracted: the call fails as a whole and returns no result.
C10_ItemStrictness ==
    (ExtractionReplied /\ \E m \in ObjectsOf(gwE.text) : MalformedItems(m) # {}) =>
        Raised(outE)

\* C10 witness: a reply whose object is otherwise extractable holds a well
\* formed method after a malformed one, and the call has failed.
C10_Witness ==
    /\ ExtractionReplied
    /\ Len(gwE.text) = 1 /\ gwE.text[1].t = "obj"
    /\ MalformedItems(gwE.text[1].members) = {<<"computational_methods", 1>>}
    /\ Len(gwE.text[1].members.computational_methods.v) = 2
    /\ Raised(outE)
    /\ outE.msg[2] = "Failed to parse extraction result"

\* C12: load_extracted_methods applied to the document written by
\* save_extracted_methods(r) returns a result equal to r in all five fields.
C12_ExtractionRoundTrip ==
    loadedE # NoOutcome => loadedE = Return(outE.value)

\* C12 witness: a result with a dataset without size and a dataset with a
\* size was saved and loaded.
C12_Witness ==
    /\ loadedE.kind = "return"
    /\ \E i, j \in 1..Len(outE.value.datasets) :
        /\ outE.value.datasets[i].size = None
        /\ outE.value.datasets[j].size # None

\* a saved and loaded result whose four sequences are empty and whose notes
\* are the empty string
EmptyRoundTrip ==
    /\ loadedE.kind = "return"
    /\ loadedE.value = [computational_methods |-> <<>>, datasets |-> <<>>,
                        workflows |-> <<>>, key_findings |-> PyList(<<>>),
                        reproducibility_notes |-> PyStr("")]

(***************************************************************************)
(* qa_interface.py: InteractiveQA.  A Python str of the engine is the      *)
(* sequence of its segments, f"prefix{e}" being <<prefix>> \o e; a         *)
(* timestamp is the reading of the clock.                                  *)
(***************************************************************************)
\* the cap of _add_to_history
MaxHistory == 10
\* the slice of _create_qa_prompt
RecentExchanges == 3
CONTEXT_TAG == "paper_content_and_methods"
GUIDANCE == <<"Please load a paper first before asking questions.">>
ERROR_PREFIX == "Error processing question: "

\* mutant of QAExchange: question and answer exchanged
QAExchange_swapped(question, answer, timestamp, context_used) ==
    [question |-> answer, answer |-> question, timestamp |-> timestamp,
     context_used |-> context_used]

QAExchange(question, answer, timestamp, context_used) ==
    [question |-> question, answer |-> answer, timestamp |-> timestamp,
     context_used |-> context_used]

\* bool(x) of an Optional dataclass instance
Truthy(x) == x # None

\* sep.join(v): v must be iterable and yield only str
str_join(v) ==
    IF v.ty = "null"
    THEN Raise("TypeError", <<"can only join an iterable">>)
    ELSE IF v.ty = "list"
    THEN IF \E i \in 1..Len(v.v) : v.v[i].ty # "str"
         THEN Raise("TypeError", <<"sequence item: expected str instance">>)
         ELSE Return([i \in 1..Len(v.v) |-> v.v[i].v])
    ELSE IF v.ty = "str" THEN Return(<<v.v>>)
    ELSE Return(<<>>)

\* the first exception among outcomes evaluated in order, if any
FirstRaised(outs) ==
    LET bad == {i \in 1..Len(outs) : Raised(outs[i])}
    IN  IF bad = {} THEN Return(None)
        ELSE outs[CHOOSE i \in bad : \A j \in bad : i <= j]

RECURSIVE Flatten(_)
Flatten(ss) == IF ss = <<>> THEN <<>> ELSE Head(ss) \o Flatten(Tail(ss))

\* mutant of recent_exchanges: the oldest exchanges of the history
recent_exchanges_oldest(history) ==
    PySlice(history, 0, Min(RecentExchanges, Len(history)))

\* the slice conversation_history[-3:] of _create_qa_prompt
recent_exchanges(history) == PyLastN(history, RecentExchanges)

\* _create_qa_prompt: the joins are evaluated in the order of the text; the
\* prompt keeps what the text embeds
create_qa_prompt(pm, em, history, question) ==
    LET methodJoins == Flatten([i \in 1..Len(em.computational_methods) |->
            <<str_join(em.computational_methods[i].software_tools),
              str_join(em.computational_methods[i].programming_languages)>>])
        workflowJoins == Flatten([i \in 1..Len(em.workflows) |->
            <<str_join(em.workflows[i].steps),
              str_join(em.workflows[i].input_data),
              str_join(em.workflows[i].output_data),
              str_join(em.workflows[i].dependencies)>>])
        recent == recent_exchanges(history)
        history_context ==
            IF history # <<>>
            THEN [i \in 1..Len(recent) |->
                    [Q |-> recent[i].question, A |-> recent[i].answer]]
            ELSE <<>>
        findings == str_join(em.key_findings)
        failed == FirstRaised(<<str_join(pm.authors)>> \o methodJoins
                              \o workflowJoins \o <<findings>>)
    IN  IF Raised(failed) THEN failed
        ELSE Return([title |-> pm.title,
                     methods |-> [i \in 1..Len(em.computational_methods) |->
                                    em.computational_methods[i].name],
                     datasets |-> [i \in 1..Len(em.datasets) |-> em.datasets[i].name],
                     workflows |-> [i \in 1..Len(em.workflows) |-> em.workflows[i].name],
                     history_context |-> history_context,
                     key_findings |-> findings.value,
                     reproducibility_notes |-> em.reproducibility_notes,
                     question |-> question])

\* mutant of add_to_history: the cut keeps the oldest exchanges
add_to_history_keep_oldest(history, question, answer, clock) ==
    LET appended == Append(history, QAExchange(question, answer, clock, CONTEXT_TAG))
    IN  IF Len(appended) > MaxHistory
        THEN PySlice(appended, 0, MaxHistory)
        ELSE appended

\* _add_to_history: the history after the append and the cut
add_to_history(history, question, answer, clock) ==
    LET appended == Append(history, QAExchange(question, answer, clock, CONTEXT_TAG))
    IN  IF Len(appended) > MaxHistory
        THEN PyLastN(appended, MaxHistory)
        ELSE appended

\* mutant of ask_question: the guidance is recorded as an answer
ask_question_records_guidance(pm, em, history, clock, question, gw) ==
    IF ~Truthy(pm) \/ ~Truthy(em)
    THEN [out |-> Return(GUIDANCE),
          history |-> add_to_history(history, question, GUIDANCE, clock),
          calls |-> 0, prompt |-> None]
    ELSE LET prompt == create_qa_prompt(pm, em, history, question)
         IN  IF Raised(prompt)
             THEN [out |-> prompt, history |-> history, calls |-> 0,
                   prompt |-> None]
             ELSE IF gw.ok
             THEN [out |-> Return(gw.text),
                   history |-> add_to_history(history, question, gw.text, clock),
                   calls |-> 1, prompt |-> prompt.value]
             ELSE [out |-> Return(<<ERROR_PREFIX>> \o gw.error),
                   history |-> history, calls |-> 1, prompt |-> prompt.value]

\* ask_question in a given engine state, given what the Gateway does when
\* called: the outcome, the history it leaves, whether it called the Gateway
\* and the prompt it sent
ask_question(pm, em, history, clock, question, gw) ==
    IF ~Truthy(pm) \/ ~Truthy(em)
    THEN [out |-> Return(GUIDANCE), history |-> history, calls |-> 0,
          prompt |-> None]
    ELSE LET prompt == create_qa_prompt(pm, em, history, question)
         IN  IF Raised(prompt)
             THEN [out |-> prompt, history |-> history, calls |-> 0,
                   prompt |-> None]
             ELSE IF gw.ok
             THEN [out |-> Return(gw.text),
                   history |-> add_to_history(history, question, gw.text, clock),
                   calls |-> 1, prompt |-> prompt.value]
             ELSE [out |-> Return(<<ERROR_PREFIX>> \o gw.error),
                   history |-> history, calls |-> 1, prompt |-> prompt.value]

\* suggest_questions: the reply is a sequence of lines, each a body with or
\* without blanks around it; strip() keeps the body.  The prompt, built
\* before the try block, formats the title and the name and description of
\* every item of the three lists with f-strings, which accept any value.
FALLBACK_QUESTIONS ==
    <<"What computational methods were used in this study?",
      "What software tools and programming languages were employed?",
      "How was the data preprocessed?",
      "What were the key parameters used in the analysis?",
      "Is the code available for reproduction?",
      "What datasets were used and where can I access them?",
      "What are the main computational findings?">>
\* mutant of suggest_questions: the Gateway failure is not caught
suggest_questions_uncaught(pm, em, gw) ==
    IF ~Truthy(pm) \/ ~Truthy(em)
    THEN [out |-> Return(<<"Please load a paper first.">>), calls |-> 0]
    ELSE IF gw.ok
    THEN [out |-> Return(LET stripped == [i \in 1..Len(gw.text) |-> gw.text[i].body]
                         IN  SelectSeq(stripped, LAMBDA q : q # "")),
          calls |-> 1]
    ELSE [out |-> Raise("RuntimeError", gw.error), calls |-> 1]

\* mutant of suggest_questions: the blank lines are kept
suggest_questions_keeping_blanks(pm, em, gw) ==
    IF ~Truthy(pm) \/ ~Truthy(em)
    THEN [out |-> Return(<<"Please load a paper first.">>), calls |-> 0]
    ELSE IF gw.ok
    THEN [out |-> Return([i \in 1..Len(gw.text) |-> gw.text[i].body]), calls |-> 1]
    ELSE [out |-> Return(FALLBACK_QUESTIONS), calls |-> 1]

strip(line) == line.body
suggest_questions(pm, em, gw) ==
    IF ~Truthy(pm) \/ ~Truthy(em)
    THEN [out |-> Return(<<"Please load a paper first.">>), calls |-> 0]
    ELSE IF gw.ok
    THEN [out |-> Return(LET stripped == [i \in 1..Len(gw.text) |-> strip(gw.text[i])]
                         IN  SelectSeq(stripped, LAMBDA q : q # "")),
          calls |-> 1]
    ELSE [out |-> Return(FALLBACK_QUESTIONS), calls |-> 1]

\* mutant of export_document: question and answer are written under each
\* other's key
export_document_swapped(pm, history) ==
    [paper_metadata |->
        [title |-> IF Truthy(pm) THEN pm.title ELSE None,
         authors |-> IF Truthy(pm) THEN pm.authors ELSE PyList(<<>>),
         doi |-> IF Truthy(pm) THEN pm.doi ELSE None],
     conversation_history |->
        [i \in 1..Len(history) |->
            [question |-> history[i].answer, answer |-> history[i].question,
             timestamp |-> history[i].timestamp]]]

\* export_conversation: the document json.dump writes
export_document(pm, history) ==
    [paper_metadata |->
        [title |-> IF Truthy(pm) THEN pm.title ELSE None,
         authors |-> IF Truthy(pm) THEN pm.authors ELSE PyList(<<>>),
         doi |-> IF Truthy(pm) THEN pm.doi ELSE None],
     conversation_history |->
        [i \in 1..Len(history) |->
            [question |-> history[i].question, answer |-> history[i].answer,
             timestamp |-> history[i].timestamp]]]

\* load_conversation: the history built from the document at input_path, or
\* the exception of open() or of a missing key
load_conversation(f) ==
    IF ~f.exists THEN Raise("FileNotFoundError", <<"No such file or directory">>)
    ELSE IF "conversation_history" \notin DOMAIN f.doc
    THEN Raise("KeyError", <<"conversation_history">>)
    ELSE LET items == f.doc.conversation_history
             bad == {i \in 1..Len(items) :
                        {"question", "answer", "timestamp"} \ DOMAIN items[i] # {}}
         IN  IF bad # {}
             THEN Raise("KeyError", <<"question, answer or timestamp">>)
             ELSE Return([i \in 1..Len(items) |->
                            QAExchange(items[i].question, items[i].answer,
                                       items[i].timestamp, CONTEXT_TAG)])

(***************************************************************************)
(* Inputs of the Q&A engine.                                               *)
(***************************************************************************)
Paper(title) ==
    [title |-> PyStr(title), authors |-> PyList(<<PyStr("Ann")>>),
     abstract |-> PyStr("abs"), doi |-> PyStr("10.1/x"), pubmed_id |-> PyStr(""),
     journal |-> PyStr("J"), year |-> PyStr("2024"), full_text |-> PyStr("text")]

\* extraction results the extraction pipeline returns: of a full reply, and
\* of a reply whose key_findings is null
FullObject ==
    [computational_methods |-> PyList(<<MethodItem("A", "X")>>),
     datasets |-> PyList(<<DatasetItem("D1")>>),
     workflows |-> PyList(<<WorkflowItem("W1")>>),
     key_findings |-> PyList(<<PyStr("f1")>>),
     reproducibility_notes |-> PyStr("code on request")]
NullFindingsObject == [key_findings |-> None]

\* the arguments load_paper_context is called with: a paper and the result
\* extracted from it, or None for either
FullExtraction == extract_methods(GatewayReply(<<TObj(FullObject)>>)).value
NullFindingsExtraction == extract_methods(GatewayReply(<<TObj(NullFindingsObject)>>)).value
Contexts ==
    {<<None, None>>, <<Paper("P1"), None>>, <<None, FullExtraction>>,
     <<Paper("P1"), FullExtraction>>, <<Paper("P2"), NullFindingsExtraction>>}

Questions == {<<"q1">>, <<"q2">>}
Answers == {<<"a1">>}
AskGateway == {GatewayFailure} \cup {GatewayReply(a) : a \in Answers}

Line(pad, body) == [pad |-> pad, body |-> body]
SuggestGateway ==
    {GatewayFailure,
     GatewayReply(<<Line(FALSE, "Which test was used?"), Line(TRUE, ""),
                    Line(TRUE, "Which version of R?")>>),
     GatewayReply(<<>>)}

\* conversation documents that did not come from this engine
ExternalExchange(i) ==
    [question |-> <<"old q">>, answer |-> <<"old a">>, timestamp |-> 100 + i]
ExternalFile(n) ==
    [exists |-> TRUE,
     doc |-> [paper_metadata |-> [title |-> None, authors |-> PyList(<<>>), doi |-> None],
              conversation_history |-> [i \in 1..n |-> ExternalExchange(i)]]]
MalformedFile ==
    [exists |-> TRUE,
     doc |-> [paper_metadata |-> [title |-> None, authors |-> PyList(<<>>), doi |-> None],
              conversation_history |-> <<[question |-> <<"old q">>]>>]]

(***************************************************************************)
(* The operations of one InteractiveQA engine.                             *)
(***************************************************************************)
NoCall == [ok |-> FALSE, text |-> <<"not called">>]
LastOp(op, arg, out, calls, gw, prompt) ==
    [op |-> op, arg |-> arg, out |-> out, calls |-> calls,
     gateway |-> IF calls = 0 THEN NoCall ELSE gw, prompt |-> prompt]

\* mutant of LoadPaperContext: a new context starts a new conversation
LoadPaperContextClearing(contexts) ==
    \E c \in contexts :
        /\ paper_metadata' = c[1]
        /\ extracted_methods' = c[2]
        /\ conversation_history' = <<>>
        /\ sinceEmpty' = <<>>
        /\ lastQ' = LastOp("load_paper_context", c, Return(None), 0, NoCall, None)
        /\ UNCHANGED <<now, file>>

LoadPaperContext(contexts) ==
    \E c \in contexts :
        /\ paper_metadata' = c[1]
        /\ extracted_methods' = c[2]
        /\ lastQ' = LastOp("load_paper_context", c, Return(None), 0, NoCall, None)
        /\ UNCHANGED <<conversation_history, now, file, sinceEmpty>>

\* at most maxAsks calls succeed in a behaviour
AskQuestion(maxAsks, questions) ==
    \E question \in questions, gw \in AskGateway :
        LET r == ask_question(paper_metadata, extracted_methods,
                              conversation_history, now, question, gw)
            answered == r.calls = 1 /\ gw.ok
        IN  /\ answered => now <= maxAsks
            /\ conversation_history' = r.history
            /\ now' = IF answered THEN now + 1 ELSE now
            /\ sinceEmpty' =
                IF answered
                THEN Append(sinceEmpty, [Q |-> question, A |-> gw.text, at |-> now,
                                         under |-> paper_metadata])
                ELSE sinceEmpty
            /\ lastQ' = LastOp("ask_question", question, r.out, r.calls, gw, r.prompt)
            /\ UNCHANGED <<paper_metadata, extracted_methods, file>>

GetConversationHistory ==
    /\ lastQ' = LastOp("get_conversation_history", None,
                       Return(conversation_history), 0, NoCall, None)
    /\ UNCHANGED <<paper_metadata, extracted_methods, conversation_history, now,
                   file, sinceEmpty>>

ClearConversation ==
    /\ conversation_history' = <<>>
    /\ sinceEmpty' = <<>>
    /\ lastQ' = LastOp("clear_conversation", None, Return(None), 0, NoCall, None)
    /\ UNCHANGED <<paper_metadata, extracted_methods, now, file>>

SuggestQuestions ==
    \E gw \in SuggestGateway :
        LET r == suggest_questions(paper_metadata, extracted_methods, gw)
        IN  /\ lastQ' = LastOp("suggest_questions", None, r.out, r.calls, gw, None)
            /\ UNCHANGED <<paper_metadata, extracted_methods,
                           conversation_history, now, file, sinceEmpty>>

ExportConversation ==
    /\ file' = [exists |-> TRUE,
                doc |-> export_document(paper_metadata, conversation_history),
                source |-> conversation_history]
    /\ lastQ' = LastOp("export_conversation", None, Return(None), 0, NoCall, None)
    /\ UNCHANGED <<paper_metadata, extracted_methods, conversation_history, now,
                   sinceEmpty>>

\* input_path names the exported document or a document from elsewhere
LoadConversation ==
    \E f \in {file, ExternalFile(MaxHistory), ExternalFile(MaxHistory + 1),
              MalformedFile} :
        LET r == load_conversation(f)
        IN  /\ conversation_history' =
                IF Raised(r) THEN conversation_history ELSE r.value
            /\ sinceEmpty' =
                IF Raised(r) THEN sinceEmpty
                ELSE [i \in 1..Len(r.value) |->
                        [Q |-> r.value[i].question, A |-> r.value[i].answer,
                         at |-> r.value[i].timestamp, under |-> None]]
            /\ lastQ' = LastOp("load_conversation", f,
                               IF Raised(r) THEN r ELSE Return(None), 0, NoCall,
                               None)
            /\ UNCHANGED <<paper_metadata, extracted_methods, now, file>>

\* an engine that is asked questions
NextAsk ==
    /\ \/ LoadPaperContext(Contexts)
       \/ AskQuestion(MaxAsks, Questions)
       \/ GetConversationHistory
    /\ UNCHANGED <<varsE, varsG, varsA, varsS, snapshot>>
SpecAsk == Init /\ [][NextAsk]_vars

\* an engine under all its operations
NextQ ==
    /\ \/ LoadPaperContext(Contexts)
       \/ AskQuestion(MaxAsksQ, {<<"q1">>})
       \/ GetConversationHistory
       \/ ClearConversation
       \/ SuggestQuestions
       \/ ExportConversation
       \/ LoadConversation
    /\ UNCHANGED <<varsE, varsG, varsA, varsS, snapshot>>
SpecQA == Init /\ [][NextQ]_vars

\* mutant of get_conversation_history: the list of the engine itself is
\* returned
get_conversation_history_itself(history) ==
    [taken |-> TRUE, items |-> history, shared |-> TRUE]

\* get_conversation_history: self.conversation_history.copy() is a new list
\* object with the same items
get_conversation_history(history) ==
    [taken |-> TRUE, items |-> history, shared |-> FALSE]

\* what an operation of the engine does to the list the caller holds: a list
\* that is the engine's own follows the changes made in place (append,
\* clear) and is left behind by an assignment of a new list (the cut of
\* _add_to_history, load_conversation)
held_after(held, in_place, rebound) ==
    IF held.shared
    THEN [held EXCEPT !.items = in_place, !.shared = ~rebound]
    ELSE held

\* an engine whose caller keeps and edits the list it was given
TakeSnapshot ==
    /\ GetConversationHistory
    /\ snapshot' = get_conversation_history(conversation_history)

\* the caller adds an exchange to its list, removes the last one or reverses
\* the list
EditSnapshot ==
    /\ snapshot.taken
    /\ \E edited \in
            {Append(snapshot.items, QAExchange(<<"mine">>, <<"mine">>, 0, CONTEXT_TAG)),
             SubSeq(snapshot.items, 1, Len(snapshot.items) - 1),
             [i \in 1..Len(snapshot.items) |->
                snapshot.items[Len(snapshot.items) + 1 - i]]} :
        /\ Len(edited) <= MaxAsksQ + 1
        /\ snapshot' = [snapshot EXCEPT !.items = edited]
        /\ conversation_history' =
                IF snapshot.shared THEN edited ELSE conversation_history
    /\ lastQ' = LastOp("edit_snapshot", None, Return(None), 0, NoCall, None)
    /\ UNCHANGED <<paper_metadata, extracted_methods, now, file, sinceEmpty>>

AskWithSnapshot ==
    /\ AskQuestion(MaxAsksQ, Questions)
    /\ snapshot' =
        IF conversation_history' = conversation_history THEN snapshot
        ELSE held_after(snapshot,
                Append(conversation_history,
                       conversation_history'[Len(conversation_history')]),
                Len(conversation_history) + 1 > MaxHistory)

ClearWithSnapshot ==
    /\ ClearConversation
    /\ snapshot' = held_after(snapshot, <<>>, FALSE)

NextSnapshot ==
    /\ \/ LoadPaperContext({<<Paper("P1"), FullExtraction>>}) /\ UNCHANGED snapshot
       \/ AskWithSnapshot
       \/ ClearWithSnapshot
       \/ TakeSnapshot
       \/ EditSnapshot
    /\ UNCHANGED <<varsE, varsG, varsA, varsS>>
SpecSnapshot == Init /\ [][NextSnapshot]_vars

\* an engine that is asked questions while its context is replaced
ReloadContexts == {<<Paper("P1"), FullExtraction>>, <<Paper("P2"), FullExtraction>>}
NextReload ==
    /\ \/ LoadPaperContext(ReloadContexts)
       \/ AskQuestion(MaxAsksQ, Questions)
    /\ UNCHANGED <<varsE, varsG, varsA, varsS, snapshot>>
SpecReload == Init /\ [][NextReload]_vars

(***************************************************************************)
(* Properties of the Q&A engine (SpecAsk, SpecQA).                         *)
(***************************************************************************)
\* h holds the last min(n, MaxHistory) of the n exchanges of asked, in order
HoldsMostRecent(h, asked) ==
    LET n == Len(asked)
        k == Min(n, MaxHistory)
    IN  /\ Len(h) = k
        /\ \A i \in 1..k :
            /\ h[i].question = asked[n - k + i].Q
            /\ h[i].answer = asked[n - k + i].A
            /\ h[i].timestamp = asked[n - k + i].at

\* C2: after n successful ask_question calls from an empty history the
\* history, and what get_conversation_history returns, is the last
\* min(n, 10) exchanges in the order asked; after 11 calls it has 10 entries
\* and starts with the exchange of the 2nd question.
C2_HistoryFIFO ==
    /\ HoldsMostRecent(conversation_history, sinceEmpty)
    /\ lastQ.op = "get_conversation_history" =>
        /\ HoldsMostRecent(lastQ.out.value, sinceEmpty)
        /\ Len(sinceEmpty) = MaxHistory + 1 =>
            /\ Len(lastQ.out.value) = MaxHistory
            /\ lastQ.out.value[1].question = sinceEmpty[2].Q
            /\ lastQ.out.value[1].timestamp = sinceEmpty[2].at

\* C2 witness: the history is read after 11 successful calls, the first two
\* with different questions.
C2_Witness ==
    /\ Len(sinceEmpty) = MaxHistory + 1
    /\ sinceEmpty[1].Q # sinceEmpty[2].Q
    /\ lastQ.op = "get_conversation_history"
    /\ Len(lastQ.out.value) = MaxHistory
    /\ lastQ.out.value[1].question = sinceEmpty[2].Q

\* C3 (the claim as stated): the history never holds more than 10 exchanges.
C3_HistoryAtMostTen == Len(conversation_history) <= MaxHistory

NoContext == ~Truthy(paper_metadata) \/ ~Truthy(extracted_methods)

\* C4: ask_question without a loaded context returns the fixed guidance,
\* calls no Gateway and leaves history and context as they were.
C4_AskWithoutContext ==
    [][(lastQ'.op = "ask_question" /\ NoContext) =>
        /\ lastQ'.out = Return(GUIDANCE)
        /\ lastQ'.calls = 0
        /\ UNCHANGED <<conversation_history, paper_metadata, extracted_methods>>]_vars

\* C4 witness: a question was asked with a paper but no extraction result
\* loaded, the history holding exchanges.
C4_Witness ==
    /\ lastQ.op = "ask_question"
    /\ Truthy(paper_metadata) /\ ~Truthy(extracted_methods)
    /\ lastQ.out = Return(GUIDANCE)
    /\ conversation_history # <<>>

\* C5 (the claim as stated): ask_question never raises; when the Gateway
\* call fails it returns a string that begins with the error prefix and
\* leaves the history as it was.
C5_AskNeverRaises ==
    [][lastQ'.op = "ask_question" =>
        /\ lastQ'.out.kind = "return"
        /\ (lastQ'.calls = 1 /\ ~lastQ'.gateway.ok) =>
            /\ lastQ'.out.value[1] = ERROR_PREFIX
            /\ UNCHANGED conversation_history]_vars

\* C6: a successful ask_question appends one exchange (the question, the
\* reply, the clock, the fixed tag) and returns the reply; the exchanges
\* kept from before are unchanged and in their order.
C6_SuccessfulAskAppends ==
    [][(lastQ'.op = "ask_question" /\ lastQ'.calls = 1 /\ lastQ'.gateway.ok) =>
        LET old == conversation_history
            new == conversation_history'
            n == Len(new)
        IN  /\ n >= 1
            /\ n <= Len(old) + 1
            /\ Len(old) < MaxHistory => n = Len(old) + 1
            /\ new[n] = [question |-> lastQ'.arg, answer |-> lastQ'.gateway.text,
                         timestamp |-> now, context_used |-> CONTEXT_TAG]
            /\ lastQ'.out = Return(lastQ'.gateway.text)
            /\ \A i \in 1..(n - 1) : new[i] = old[Len(old) + 1 - n + i]]_vars

\* C6 witness: a question was answered while the history was full of
\* exchanges loaded from a document.
C6_Witness ==
    /\ lastQ.op = "ask_question" /\ lastQ.calls = 1 /\ lastQ.gateway.ok
    /\ Len(conversation_history) = MaxHistory
    /\ conversation_history[MaxHistory].question = lastQ.arg
    /\ conversation_history[1].question = <<"old q">>

\* C22: the prompt ask_question builds on a history of n exchanges embeds
\* the last min(3, n) of them, oldest first, and nothing older; on an empty
\* history it embeds no conversation block.
C22_PromptRecentExchanges ==
    [][(lastQ'.op = "ask_question" /\ lastQ'.calls = 1) =>
        LET h == conversation_history
            n == Len(h)
            k == Min(RecentExchanges, n)
            embedded == lastQ'.prompt.history_context
        IN  /\ Len(embedded) = k
            /\ \A i \in 1..k :
                embedded[i] = [Q |-> h[n - k + i].question, A |-> h[n - k + i].answer]
            /\ n = 0 => embedded = <<>>]_vars

\* C22 witness: a question was asked on a history of four exchanges whose
\* oldest differs from the rest; the Gateway failed, so the history is still
\* the one the prompt was built on, and the prompt embeds the last three.
C22_Witness ==
    /\ lastQ.op = "ask_question" /\ lastQ.calls = 1 /\ ~lastQ.gateway.ok
    /\ Len(conversation_history) = RecentExchanges + 1
    /\ conversation_history[1].question = <<"q1">>
    /\ \A i \in 2..(RecentExchanges + 1) : conversation_history[i].question = <<"q2">>
    /\ Len(lastQ.prompt.history_context) = RecentExchanges
    /\ \A i \in 1..RecentExchanges : lastQ.prompt.history_context[i].Q = <<"q2">>

\* C25: load_paper_context installs the paper record and the extraction
\* result it is given and leaves the history as it was; the prompt of a later
\* question is about the paper now loaded and embeds the most recent
\* exchanges of that history, whatever paper they were recorded under.
C25_ContextReloadKeepsHistory ==
    [][/\ lastQ'.op = "load_paper_context" =>
            /\ paper_metadata' = lastQ'.arg[1]
            /\ extracted_methods' = lastQ'.arg[2]
            /\ UNCHANGED <<conversation_history, now, file>>
       /\ (lastQ'.op = "ask_question" /\ lastQ'.calls = 1) =>
            LET recent == recent_exchanges(conversation_history)
            IN  /\ lastQ'.prompt.title = paper_metadata.title
                /\ lastQ'.prompt.history_context =
                    [i \in 1..Len(recent) |->
                        [Q |-> recent[i].question, A |-> recent[i].answer]]]_vars

\* C25 witness: a question about P2 was asked on a history whose exchange was
\* recorded while P1 was loaded, and the prompt embeds that exchange (the
\* Gateway failed, so the history is still the one the prompt was built on).
C25_Witness ==
    /\ lastQ.op = "ask_question" /\ lastQ.calls = 1 /\ ~lastQ.gateway.ok
    /\ paper_metadata = Paper("P2")
    /\ lastQ.prompt.title = PyStr("P2")
    /\ Len(conversation_history) = 1 /\ Len(sinceEmpty) = 1
    /\ sinceEmpty[1].under = Paper("P1")
    /\ lastQ.arg = <<"q2">>
    /\ lastQ.prompt.history_context =
            <<[Q |-> conversation_history[1].question,
               A |-> conversation_history[1].answer]>>
    /\ conversation_history[1].question = <<"q1">>

\* C30: what get_conversation_history returns has the items of the history;
\* an edit of the returned list (an exchange added, one removed, the order
\* reversed) leaves the history of the engine as it was, and ask_question
\* and clear_conversation leave a list returned earlier as it was.
C30_SnapshotIndependent ==
    [][/\ lastQ'.op = "get_conversation_history" =>
            /\ snapshot'.items = conversation_history
            /\ lastQ'.out = Return(snapshot'.items)
       /\ lastQ'.op = "edit_snapshot" => UNCHANGED conversation_history
       /\ lastQ'.op \in {"ask_question", "clear_conversation"} =>
            UNCHANGED snapshot]_vars

\* C30 witness: the history was cleared while the caller held a list of two
\* exchanges, which it still holds.
C30_Witness ==
    /\ lastQ.op = "clear_conversation"
    /\ conversation_history = <<>>
    /\ snapshot.taken /\ Len(snapshot.items) = 2
    /\ snapshot.items[1].question = <<"q1">>
    /\ snapshot.items[2].question = <<"q2">>

\* the caller edited a list of two exchanges and the engine still holds them
SnapshotEdited ==
    /\ lastQ.op = "edit_snapshot"
    /\ Len(conversation_history) = 2
    /\ snapshot.items # conversation_history

\* C13: load_conversation applied to the document export_conversation wrote
\* from a history h leaves a history with as many exchanges as h, in the same
\* order, each with the question, answer and timestamp of the original.
C13_ConversationRoundTrip ==
    [][(lastQ'.op = "load_conversation" /\ file.exists /\ lastQ'.arg = file) =>
        /\ lastQ'.out = Return(None)
        /\ Len(conversation_history') = Len(file.source)
        /\ \A i \in 1..Len(file.source) :
            /\ conversation_history'[i].question = file.source[i].question
            /\ conversation_history'[i].answer = file.source[i].answer
            /\ conversation_history'[i].timestamp = file.source[i].timestamp]_vars

\* C13 witness: the engine loaded the document it had exported from a
\* history of two exchanges of its own with different timestamps.
C13_Witness ==
    /\ lastQ.op = "load_conversation" /\ file.exists /\ lastQ.arg = file
    /\ Len(file.source) = 2
    /\ conversation_history = file.source
    /\ file.source[1].question = <<"q1">>
    /\ file.source[1].timestamp # file.source[2].timestamp

\* C14: suggest_questions never raises; without a loaded context it returns
\* the one-element guidance sequence and calls no Gateway; with a context and
\* a failing Gateway it returns the seven fallback questions in their order.
C14_SuggestNeverFails ==
    [][lastQ'.op = "suggest_questions" =>
        /\ lastQ'.out.kind = "return"
        /\ NoContext =>
            /\ lastQ'.out.value = <<"Please load a paper first.">>
            /\ lastQ'.calls = 0
        /\ (~NoContext /\ ~lastQ'.gateway.ok) =>
            /\ lastQ'.calls = 1
            /\ lastQ'.out.value = FALLBACK_QUESTIONS
            /\ Len(lastQ'.out.value) = 7
            /\ lastQ'.out.value[1] = "What computational methods were used in this study?"
            /\ lastQ'.out.value[7] = "What are the main computational findings?"]_vars

\* C14 witness: with a context loaded the Gateway failed and the fallback
\* questions were returned.
C14_Witness ==
    /\ lastQ.op = "suggest_questions"
    /\ ~NoContext
    /\ lastQ.calls = 1 /\ ~lastQ.gateway.ok
    /\ lastQ.out = Return(FALLBACK_QUESTIONS)

\* C23: when its Gateway call succeeds suggest_questions returns the bodies
\* of the reply's non-blank lines in their order, none of them empty or
\* padded, and leaves the history as it was.
C23_SuggestTrimmedLines ==
    [][(lastQ'.op = "suggest_questions" /\ lastQ'.calls = 1 /\ lastQ'.gateway.ok) =>
        LET text == lastQ'.gateway.text
            kept == {i \in 1..Len(text) : text[i].body # ""}
            returned == lastQ'.out.value
        IN  /\ lastQ'.out.kind = "return"
            /\ Len(returned) = Cardinality(kept)
            /\ \A i \in kept :
                returned[Cardinality({j \in kept : j <= i})] = text[i].body
            /\ \A k \in 1..Len(returned) :
                /\ returned[k] # ""
                /\ \E i \in kept : returned[k] = strip(Line(TRUE, text[i].body))
            /\ UNCHANGED conversation_history]_vars

\* C23 witness: on a history with an exchange the Gateway replied with a
\* line, a blank line and a padded line, and the two questions came back.
C23_Witness ==
    /\ lastQ.op = "suggest_questions" /\ lastQ.calls = 1 /\ lastQ.gateway.ok
    /\ Len(lastQ.gateway.text) = 3
    /\ lastQ.gateway.text[2].body = ""
    /\ lastQ.gateway.text[3].pad
    /\ lastQ.out = Return(<<"Which test was used?", "Which version of R?">>)
    /\ conversation_history # <<>>

\* C17 (the claim as stated): the history changes only in a successful
\* ask_question step.
C17_OnlyAskChangesHistory ==
    [][conversation_history' # conversation_history =>
        /\ lastQ'.op = "ask_question"
        /\ lastQ'.calls = 1 /\ lastQ'.gateway.ok]_vars

(***************************************************************************)
(* code_generator.py: CodeGenerator.  A reply to a generation prompt is a  *)
(* sequence of lines: a fence (three backquotes) with its tag, one of the   *)
(* three section labels, or a line of other text.                          *)
(***************************************************************************)
Fence(tag) == [t |-> "fence", s |-> tag]
Label(name) == [t |-> "label", s |-> name]
TextLine(text) == [t |-> "line", s |-> text]

\* the languages the application offers and the fence tags of the replies
Languages == {"python", "r"}
\* tag = prefix followed by rest, for the tags and prefixes of the model
TagSplits ==
    {<<"", "", "">>, <<"python", "python", "">>, <<"python", "", "python">>,
     <<"r", "r", "">>, <<"r", "", "r">>,
     <<"rust", "r", "ust">>, <<"rust", "", "rust">>, <<"rust", "rust", "">>,
     <<"bash", "", "bash">>, <<"bash", "bash", "">>}
TagStartsWith(tag, prefix) == \E sp \in TagSplits : sp[1] = tag /\ sp[2] = prefix
TagRest(tag, prefix) == (CHOOSE sp \in TagSplits : sp[1] = tag /\ sp[2] = prefix)[3]

\* the text of a line
LineText(tok) ==
    IF tok.t = "fence" THEN <<"<fence>", tok.s>> ELSE <<tok.s>>
LinesOf(tokens) == [i \in 1..Len(tokens) |-> LineText(tokens[i])]

\* re.search(fence + prefix + "(.*?)" + fence, text, DOTALL): the first fence
\* whose tag starts with prefix and that has a fence after it, and group(1):
\* the rest of the tag and the lines up to the next fence
fence_search(text, prefix) ==
    LET opens == {i \in 1..Len(text) :
                    /\ text[i].t = "fence" /\ TagStartsWith(text[i].s, prefix)
                    /\ \E j \in (i + 1)..Len(text) : text[j].t = "fence"}
    IN  IF opens = {} THEN [matched |-> FALSE, group |-> <<>>]
        ELSE LET i == CHOOSE a \in opens : \A b \in opens : a <= b
                 closes == {j \in (i + 1)..Len(text) : text[j].t = "fence"}
                 j == CHOOSE a \in closes : \A b \in closes : a <= b
                 rest == TagRest(text[i].s, prefix)
             IN  [matched |-> TRUE,
                  group |-> (IF rest = "" THEN <<>> ELSE <<<<rest>>>>)
                            \o LinesOf(SubSeq(text, i + 1, j - 1))]

\* re.search(label + "\s*(.*?)(?=" + stop + "|$)", text, DOTALL): group(1)
\* runs from the first label to the first stop label after it, or to the end
\* of the text when stop is "" or does not follow
section_search(text, label, stop) ==
    LET starts == {i \in 1..Len(text) : text[i] = Label(label)}
    IN  IF starts = {} THEN [matched |-> FALSE, group |-> <<>>]
        ELSE LET i == CHOOSE a \in starts : \A b \in starts : a <= b
                 stops == {j \in (i + 1)..Len(text) :
                            stop # "" /\ text[j] = Label(stop)}
                 j == IF stops = {} THEN Len(text) + 1
                      ELSE CHOOSE a \in stops : \A b \in stops : a <= b
             IN  [matched |-> TRUE, group |-> LinesOf(SubSeq(text, i + 1, j - 1))]

\* _parse_code_generation_result
parse_code_generation_result(result_text, category, language) ==
    LET tagged == fence_search(result_text, language)
        code_match == IF tagged.matched THEN tagged
                      ELSE fence_search(result_text, "")
        deps_match == section_search(result_text, "DEPENDENCIES:", "DESCRIPTION:")
        desc_match == section_search(result_text, "DESCRIPTION:", "USAGE:")
        usage_match == section_search(result_text, "USAGE:", "")
    IN  [script_content |->
            IF code_match.matched THEN code_match.group ELSE LinesOf(result_text),
         language |-> language,
         dependencies |-> IF deps_match.matched THEN deps_match.group ELSE <<>>,
         description |->
            IF desc_match.matched THEN desc_match.group
            ELSE <<<<"Generated ", category, " analysis script">>>>,
         usage_instructions |->
            IF usage_match.matched THEN usage_match.group
            ELSE <<<<"Run the script with your data files">>>>]

\* self.templates as _load_templates builds it from the files of templates/
TemplateFiles == {"statistical_analysis", "machine_learning", "bioinformatics"}
templates == [name \in TemplateFiles |-> <<"text of", name>>]

\* _get_template_for_category
category_mapping ==
    [statistical_analysis |-> "statistical_analysis",
     machine_learning |-> "machine_learning",
     bioinformatics |-> "bioinformatics",
     data_analysis |-> "statistical_analysis",
     image_analysis |-> "statistical_analysis"]
\* mutant of _get_template_for_category: no default for an unmapped category
get_template_for_category_unmapped_empty(category) ==
    LET template_name == dict_get(category_mapping, category, "")
    IN  dict_get(templates, template_name, <<>>)
get_template_for_category(category) ==
    LET template_name == dict_get(category_mapping, category, "statistical_analysis")
    IN  dict_get(templates, template_name, <<>>)

\* _create_code_generation_prompt: the joins and enumerations are evaluated
\* in the order of the text; the prompt keeps what the text embeds
create_code_generation_prompt(category, methods, em, language, template) ==
    LET failed == FirstRaised(
            [i \in 1..Len(methods) |-> str_join(methods[i].software_tools)]
            \o [i \in 1..Len(em.workflows) |->
                    str_join(em.workflows[i].steps)])
    IN  IF Raised(failed) THEN failed
        ELSE Return([language |-> language, category |-> category,
                     methods |-> [i \in 1..Len(methods) |-> methods[i].name],
                     datasets |-> [i \in 1..Len(em.datasets) |->
                                    em.datasets[i].name],
                     workflows |-> [i \in 1..Len(em.workflows) |->
                                    em.workflows[i].name],
                     template |-> template])

\* _generate_category_script, given what the Gateway does with the prompt:
\* the script, None after a caught exception, or the exception of the prompt
\* construction, which is outside the try block
generate_category_script(category, methods, em, language, gw) ==
    LET prompt == create_code_generation_prompt(category, methods,
                    em, language,
                    get_template_for_category(category))
    IN  IF Raised(prompt) THEN [out |-> prompt, calls |-> <<>>]
        ELSE IF gw.ok
        THEN [out |-> Return(parse_code_generation_result(gw.text, category, language)),
              calls |-> <<prompt.value>>]
        ELSE [out |-> Return(None), calls |-> <<prompt.value>>]

\* mutant of methods_by_category: a method goes to the front of its group
RECURSIVE methods_by_category_prepending(_, _)
methods_by_category_prepending(methods, groups) ==
    IF methods = <<>> THEN groups
    ELSE LET method == Head(methods)
             hit == {i \in 1..Len(groups) : groups[i].category = method.category}
         IN  methods_by_category_prepending(Tail(methods),
                IF hit = {}
                THEN Append(groups, [category |-> method.category,
                                     methods |-> <<method>>])
                ELSE [groups EXCEPT ![CHOOSE i \in hit : TRUE].methods =
                                        <<method>> \o @])

\* the loop that groups the methods by category: groups is the dict in
\* insertion order
RECURSIVE methods_by_category(_, _)
methods_by_category(methods, groups) ==
    IF methods = <<>> THEN groups
    ELSE LET method == Head(methods)
             hit == {i \in 1..Len(groups) : groups[i].category = method.category}
         IN  methods_by_category(Tail(methods),
                IF hit = {}
                THEN Append(groups, [category |-> method.category,
                                     methods |-> <<method>>])
                ELSE [groups EXCEPT ![CHOOSE i \in hit : TRUE].methods =
                                        Append(@, method)])

\* the loop over the groups: the scripts and the prompts sent to the Gateway
\* so far
RECURSIVE generate_loop(_, _, _, _, _, _)
generate_loop(groups, em, language, gw, generated_scripts, calls) ==
    IF groups = <<>>
    THEN [out |-> Return(generated_scripts), calls |-> calls]
    ELSE LET category == Head(groups).category
             r == generate_category_script(category.v, Head(groups).methods,
                    em, language, gw[category.v])
             called == calls \o r.calls
         IN  IF Raised(r.out) THEN [out |-> r.out, calls |-> called]
             ELSE generate_loop(Tail(groups), em, language, gw,
                    IF r.out.value # None
                    THEN Append(generated_scripts, r.out.value)
                    ELSE generated_scripts,
                    called)

\* mutant of generate_code_from_methods: the first failing category ends the
\* loop
RECURSIVE generate_loop_stops(_, _, _, _, _, _)
generate_loop_stops(groups, em, language, gw, generated_scripts, calls) ==
    IF groups = <<>>
    THEN [out |-> Return(generated_scripts), calls |-> calls]
    ELSE LET category == Head(groups).category
             r == generate_category_script(category.v, Head(groups).methods,
                    em, language, gw[category.v])
             called == calls \o r.calls
         IN  IF Raised(r.out) THEN [out |-> r.out, calls |-> called]
             ELSE IF r.out.value = None
             THEN [out |-> Return(generated_scripts), calls |-> called]
             ELSE generate_loop_stops(Tail(groups), em, language,
                    gw, Append(generated_scripts, r.out.value), called)
generate_code_stops_at_failure(em, language, gw) ==
    generate_loop_stops(
        methods_by_category(em.computational_methods, <<>>),
        em, language, gw, <<>>, <<>>)

\* generate_code_from_methods, given what the Gateway does for each category
generate_code_from_methods(em, language, gw) ==
    generate_loop(
        methods_by_category(em.computational_methods, <<>>),
        em, language, gw, <<>>, <<>>)

\* the strings written as dependencies in the model, in the order of
\* Python's str comparison (by code point: upper case before lower case)
StrOrder == <<"Zlib", "numpy", "scipy">>
str_rank(line) == CHOOSE i \in 1..Len(StrOrder) : StrOrder[i] = line[1]

\* mutant of generate_requirements_file: the dependencies written in the
\* order they are first met
generate_requirements_file_unsorted(generated_scripts) ==
    LET scripts == generated_scripts
        all == Flatten([i \in 1..Len(scripts) |-> scripts[i].dependencies])
        firsts == {i \in 1..Len(all) : \A j \in 1..(i - 1) : all[j] # all[i]}
        pick[k \in 0..Len(all)] ==
            IF k = 0 THEN <<>>
            ELSE IF k \in firsts THEN Append(pick[k - 1], all[k]) ELSE pick[k - 1]
    IN  pick[Len(all)]

\* sorted(deps) of a set of strings
RECURSIVE sorted(_)
sorted(deps) ==
    IF deps = {} THEN <<>>
    ELSE LET least == CHOOSE a \in deps : \A b \in deps : str_rank(a) <= str_rank(b)
         IN  <<least>> \o sorted(deps \ {least})

\* generate_requirements_file: the lines written to output_path
generate_requirements_file(generated_scripts) ==
    LET all_deps == UNION {{generated_scripts[i].dependencies[j] :
                                j \in 1..Len(generated_scripts[i].dependencies)} :
                            i \in 1..Len(generated_scripts)}
    IN  sorted(all_deps)

(***************************************************************************)
(* Inputs of the code generation pipeline.                                 *)
(***************************************************************************)
Categories == {"machine_learning", "bioinformatics", "proteomics"}

\* the extraction results with up to MaxMethods methods, the i-th named Mi
MethodNames == <<"M1", "M2", "M3", "M4", "M5">>
MethodLists ==
    {[i \in 1..Len(cs) |-> ComputationalMethod(MethodItem(MethodNames[i], cs[i])).value] :
        cs \in SeqUpTo(Categories, MaxMethods)}
ExtractionOf(methods) ==
    [computational_methods |-> methods,
     datasets |-> <<Dataset(DatasetItem("D1")).value>>,
     workflows |-> <<Workflow(WorkflowItem("W1")).value>>,
     key_findings |-> PyList(<<PyStr("f1")>>),
     reproducibility_notes |-> PyStr("")]

\* replies to a generation prompt: in the requested format, a bare script,
\* and a block without tag followed by its dependencies
GenerationReplies ==
    {<<Fence("python"), TextLine("import numpy"), Fence(""),
       Label("DEPENDENCIES:"), TextLine("scipy"), TextLine("numpy"),
       Label("DESCRIPTION:"), TextLine("fits the model"),
       Label("USAGE:"), TextLine("python script.py")>>,
     <<TextLine("library(stats)")>>,
     <<TextLine("Here it is"), Fence(""), TextLine("print(1)"), Fence(""),
       Label("DEPENDENCIES:"), TextLine("numpy"), TextLine("Zlib")>>}

\* the replies whose parsing is examined: an optional opening line, one of
\* the code parts, and the sections of one of the section parts
Block(tag, line) == <<Fence(tag), TextLine(line), Fence("")>>
CodeParts ==
    {<<>>,
     <<TextLine("library(stats)")>>,
     Block("", "print(1)"),
     Block("python", "import numpy"),
     Block("r", "x <- 1"),
     Block("rust", "fn main") \o Block("r", "x <- 1"),
     Block("rust", "fn main"),
     Block("bash", "pip install numpy") \o Block("python", "import numpy"),
     <<Fence("python"), TextLine("import numpy")>>}
SectionText ==
    [l \in {"DEPENDENCIES:", "DESCRIPTION:", "USAGE:"} |->
        CASE l = "DEPENDENCIES:" -> <<Label(l), TextLine("numpy"), TextLine("scipy")>>
          [] l = "DESCRIPTION:" -> <<Label(l), TextLine("fits the model")>>
          [] l = "USAGE:" -> <<Label(l), TextLine("python script.py")>>]
SectionParts ==
    {(IF "DEPENDENCIES:" \in present THEN SectionText["DEPENDENCIES:"] ELSE <<>>)
     \o (IF "DESCRIPTION:" \in present THEN SectionText["DESCRIPTION:"] ELSE <<>>)
     \o (IF "USAGE:" \in present THEN SectionText["USAGE:"] ELSE <<>>) :
        present \in SUBSET {"DEPENDENCIES:", "DESCRIPTION:", "USAGE:"}}
    \cup {SectionText["USAGE:"] \o SectionText["DEPENDENCIES:"],
          <<Label("DEPENDENCIES:"), Label("DESCRIPTION:"), TextLine("fits the model")>>}
ParseReplies ==
    {opening \o code \o sections :
        opening \in {<<>>, <<TextLine("Here it is")>>},
        code \in CodeParts, sections \in SectionParts}
\* the categories of the mapping and two outside it, and the method lists of
\* one or two methods over them
TemplateCategories ==
    {"statistical_analysis", "machine_learning", "bioinformatics",
     "data_analysis", "image_analysis", "proteomics", ""}
TemplateMethodLists ==
    {[i \in 1..Len(cs) |-> ComputationalMethod(MethodItem(MethodNames[i], cs[i])).value] :
        cs \in (TemplateCategories \X TemplateCategories)
                \cup {<<c>> : c \in TemplateCategories}}
\* the method lists of one method
OneMethodLists == {methods \in MethodLists : Len(methods) = 1}

CategoriesOf(methods) == {methods[i].category.v : i \in 1..Len(methods)}

(***************************************************************************)
(* CodeGenerator.generate_code_from_methods: for every category of the     *)
(* methods the Gateway fails or answers with any reply.                    *)
(***************************************************************************)
GenerateCode(methodLists, replies) ==
    /\ pcG = "idle"
    /\ \E methods \in methodLists, language \in Languages :
        \E gw \in [CategoriesOf(methods) ->
                        {GatewayFailure} \cup {GatewayReply(t) : t \in replies}] :
            LET r == generate_code_from_methods(ExtractionOf(methods), language, gw)
            IN  /\ inG = NoArguments
                /\ inG' = [given |-> TRUE, extracted_methods |-> ExtractionOf(methods),
                           language |-> language]
                /\ gwG' = gw
                /\ outG' = r.out
                /\ callsG' = r.calls
    /\ pcG' = "done"
    /\ UNCHANGED requirementsG

\* CodeGenerator.generate_requirements_file of the scripts the call returned
GenerateRequirementsFile ==
    /\ pcG = "done" /\ outG.kind = "return"
    /\ requirementsG = NoFile
    /\ requirementsG' = [exists |-> TRUE,
                         lines |-> generate_requirements_file(outG.value)]
    /\ UNCHANGED <<pcG, inG, gwG, outG, callsG>>

NextG ==
    /\ \/ GenerateCode(MethodLists, GenerationReplies)
       \/ GenerateRequirementsFile
    /\ UNCHANGED <<varsE, varsQ, varsA, varsS>>
SpecGen == Init /\ [][NextG]_vars

\* one call for one category, the Gateway failing or giving any of the
\* replies whose parsing is examined
NextParse == GenerateCode(OneMethodLists, ParseReplies) /\ UNCHANGED <<varsE, varsQ, varsA, varsS>>
SpecParse == Init /\ [][NextParse]_vars

\* one call for one or two methods of any category
NextTemplate ==
    GenerateCode(TemplateMethodLists, GenerationReplies) /\ UNCHANGED <<varsE, varsQ, varsA, varsS>>
SpecTemplate == Init /\ [][NextTemplate]_vars

(***************************************************************************)
(* Properties of the code generation pipeline (SpecGen).                   *)
(***************************************************************************)
\* the categories of the call in the order of their first method
FirstMethodOf(methods, c) ==
    CHOOSE i \in 1..Len(methods) :
        /\ methods[i].category.v = c
        /\ \A j \in 1..(i - 1) : methods[j].category.v # c
RECURSIVE InOrderOfFirst(_, _)
InOrderOfFirst(methods, cs) ==
    IF cs = {} THEN <<>>
    ELSE LET c == CHOOSE x \in cs :
                    \A y \in cs : FirstMethodOf(methods, x) <= FirstMethodOf(methods, y)
         IN  <<c>> \o InOrderOfFirst(methods, cs \ {c})
GroupOrder == InOrderOfFirst(inG.extracted_methods.computational_methods,
                             CategoriesOf(inG.extracted_methods.computational_methods))
Succeeding == SelectSeq(GroupOrder, LAMBDA c : gwG[c].ok)

\* the Gateway of the call with every failure replaced by a reply
AnyReply == CHOOSE t \in GenerationReplies : TRUE
NoFailure == [c \in DOMAIN gwG |-> IF gwG[c].ok THEN gwG[c] ELSE GatewayReply(AnyReply)]
\* the scripts of the same call had no category failed
ScriptsWithoutFailure ==
    generate_code_from_methods(inG.extracted_methods, inG.language, NoFailure).out.value
\* the place of category c in the order of the groups
PlaceOf(c) == CHOOSE i \in 1..Len(GroupOrder) : GroupOrder[i] = c

\* C1: whichever categories' Gateway calls fail, generate_code_from_methods
\* returns; the result holds one script for each succeeding category, in the
\* order of the groups, each the script the call without failures gives for
\* that category; it is empty when every category fails.
C1_PartialFailure ==
    pcG = "done" =>
        /\ outG.kind = "return"
        /\ Len(outG.value) = Len(Succeeding)
        /\ Len(ScriptsWithoutFailure) = Len(GroupOrder)
        /\ \A i \in 1..Len(Succeeding) :
            outG.value[i] = ScriptsWithoutFailure[PlaceOf(Succeeding[i])]
        /\ (\A c \in DOMAIN gwG : ~gwG[c].ok) => outG.value = <<>>

\* C1 witness: of three categories the second fails and the two others give
\* different scripts.
C1_Witness ==
    /\ pcG = "done"
    /\ Len(GroupOrder) = 3
    /\ ~gwG[GroupOrder[2]].ok /\ gwG[GroupOrder[1]].ok /\ gwG[GroupOrder[3]].ok
    /\ outG.kind = "return"
    /\ Len(outG.value) = 2
    /\ outG.value[1] # outG.value[2]

\* the methods handed to the call, and their names where their category is c
MethodsGiven == inG.extracted_methods.computational_methods
NamesIn(c) ==
    LET of_c == SelectSeq(MethodsGiven, LAMBDA method : method.category.v = c)
    IN  [i \in 1..Len(of_c) |-> of_c[i].name]

\* C11: the category groups are processed in the order of each category's
\* first occurrence in the method list; within a group the methods keep their
\* original relative order; every method appears in exactly one group.
C11_GroupingOrder ==
    pcG = "done" =>
        /\ [i \in 1..Len(callsG) |-> callsG[i].category] = GroupOrder
        /\ \A i \in 1..Len(callsG) : callsG[i].methods = NamesIn(callsG[i].category)
        /\ \A k \in 1..Len(MethodsGiven) :
            Cardinality({<<i, j>> \in (1..Len(callsG)) \X (1..MaxMethods + 1) :
                            /\ j <= Len(callsG[i].methods)
                            /\ callsG[i].methods[j] = MethodsGiven[k].name}) = 1

\* C11 witness: methods A:X, B:Y, C:X give the groups X = [A, C], then Y = [B].
C11_Witness ==
    /\ pcG = "done"
    /\ Len(MethodsGiven) = 3
    /\ MethodsGiven[1].category = MethodsGiven[3].category
    /\ MethodsGiven[1].category # MethodsGiven[2].category
    /\ Len(callsG) = 2
    /\ callsG[1].methods = <<MethodsGiven[1].name, MethodsGiven[3].name>>
    /\ callsG[2].methods = <<MethodsGiven[2].name>>



\* C20: the manifest holds every dependency of every script exactly once and
\* nothing else, one per line in sorted order; for an empty script list it is
\* empty.
C20_RequirementsManifest ==
    requirementsG.exists =>
        LET lines == requirementsG.lines
        IN  /\ \A i \in 1..Len(outG.value) :
                \A j \in 1..Len(outG.value[i].dependencies) :
                    Cardinality({k \in 1..Len(lines) :
                                    lines[k] = outG.value[i].dependencies[j]}) = 1
            /\ \A k \in 1..Len(lines) :
                \E i \in 1..Len(outG.value) :
                    \E j \in 1..Len(outG.value[i].dependencies) :
                        lines[k] = outG.value[i].dependencies[j]
            /\ \A k \in 1..(Len(lines) - 1) : str_rank(lines[k]) < str_rank(lines[k + 1])
            /\ outG.value = <<>> => lines = <<>>

\* C20 witness: two scripts share a dependency and list their dependencies
\* out of order; the manifest has the three distinct dependencies.
C20_Witness ==
    /\ requirementsG.exists
    /\ Len(outG.value) = 2
    /\ outG.value[1].dependencies = <<<<"scipy">>, <<"numpy">>>>
    /\ outG.value[2].dependencies = <<<<"numpy">>, <<"Zlib">>>>
    /\ requirementsG.lines = <<<<"Zlib">>, <<"numpy">>, <<"scipy">>>>

(***************************************************************************)
(* Properties of the parsing of a generation reply (SpecParse).            *)
(***************************************************************************)
\* a call for one category that the Gateway answered, its reply and script
OneScript ==
    /\ pcG = "done" /\ Len(MethodsGiven) = 1
    /\ gwG[MethodsGiven[1].category.v].ok
TheReply == gwG[MethodsGiven[1].category.v].text
TheScript == outG.value[1]

\* the fences of a reply in their order, and its blocks: the first fence
\* opens a block, the second closes it, the third opens the next one
RECURSIVE Ascending(_)
Ascending(S) ==
    IF S = {} THEN <<>>
    ELSE LET least == CHOOSE a \in S : \A b \in S : a <= b
         IN  <<least>> \o Ascending(S \ {least})
FencesOf(text) == Ascending({i \in 1..Len(text) : text[i].t = "fence"})
BlocksOf(text) ==
    [k \in 1..(Len(FencesOf(text)) \div 2) |->
        [tag |-> text[FencesOf(text)[2 * k - 1]].s,
         code |-> LinesOf(SubSeq(text, FencesOf(text)[2 * k - 1] + 1,
                                 FencesOf(text)[2 * k] - 1))]]
\* what stands between the fences of a block: its tag, if any, and its code
Between(block) == (IF block.tag = "" THEN <<>> ELSE <<<<block.tag>>>>) \o block.code
FirstWhere(blocks, Test(_)) ==
    LET hits == {k \in 1..Len(blocks) : Test(blocks[k])}
    IN  IF hits = {} THEN 0 ELSE CHOOSE a \in hits : \A b \in hits : a <= b

\* C15 (the claim as stated): the script body is the code of the first block
\* tagged with the requested language if there is one; otherwise what the
\* first block of any kind holds, which for an untagged block is exactly its
\* code; otherwise the entire reply.  Parsing never fails.
C15_BodyFallback ==
    OneScript =>
        LET blocks == BlocksOf(TheReply)
            tagged == FirstWhere(blocks, LAMBDA b : b.tag = inG.language)
        IN  /\ outG.kind = "return" /\ Len(outG.value) = 1
            /\ TheScript.script_content =
                IF tagged # 0 THEN blocks[tagged].code
                ELSE IF blocks # <<>> THEN Between(blocks[1])
                ELSE LinesOf(TheReply)

\* the labels of the three sections and the values of absent sections
SectionLabels == {"DEPENDENCIES:", "DESCRIPTION:", "USAGE:"}
\* the lines from the first occurrence of label to the next label of any
\* section, or to the end of the text
SectionOf(text, label) ==
    LET first == CHOOSE i \in 1..Len(text) :
                    /\ text[i] = Label(label)
                    /\ \A j \in 1..(i - 1) : text[j] # Label(label)
        later == {j \in (first + 1)..Len(text) : text[j].t = "label"}
        next == IF later = {} THEN Len(text) + 1
                ELSE CHOOSE a \in later : \A b \in later : a <= b
    IN  LinesOf(SubSeq(text, first + 1, next - 1))
Present(text, label) == \E i \in 1..Len(text) : text[i] = Label(label)

\* C16 (the claim as stated): each section runs from its label to the next
\* label present in the reply or to the end of the text; an absent
\* DEPENDENCIES gives the empty list, an absent DESCRIPTION the description
\* generated from the category, an absent USAGE the generic instruction; no
\* section's value holds the text of another section.
C16_SectionBounds ==
    OneScript =>
        /\ TheScript.dependencies =
            IF Present(TheReply, "DEPENDENCIES:")
            THEN SectionOf(TheReply, "DEPENDENCIES:") ELSE <<>>
        /\ TheScript.description =
            IF Present(TheReply, "DESCRIPTION:")
            THEN SectionOf(TheReply, "DESCRIPTION:")
            ELSE <<<<"Generated ", MethodsGiven[1].category.v, " analysis script">>>>
        /\ TheScript.usage_instructions =
            IF Present(TheReply, "USAGE:")
            THEN SectionOf(TheReply, "USAGE:")
            ELSE <<<<"Run the script with your data files">>>>
        /\ \A f \in {"dependencies", "description", "usage_instructions"} :
            \A i \in 1..Len(TheScript[f]) :
                TheScript[f][i] \notin {<<l>> : l \in SectionLabels}

(***************************************************************************)
(* The credential.  Each of MethodExtractor, CodeGenerator and             *)
(* InteractiveQA reads ANTHROPIC_API_KEY in its __init__; app.py builds    *)
(* the Q&A engine when a session starts and an extractor or generator in   *)
(* the handler of the button that uses it.                                 *)
(***************************************************************************)
\* the environments of the process: no key, an empty key, a key
Environments ==
    {EmptyDict, [ANTHROPIC_API_KEY |-> PyStr("")], [ANTHROPIC_API_KEY |-> PyStr("sk-1")]}
\* os.getenv(name)
os_getenv(env, name) == IF name \in DOMAIN env THEN env[name] ELSE None
\* not api_key
not_str(api_key) == api_key = None \/ api_key = PyStr("")

\* the part of __init__ the three classes share: the instance with its
\* client, or the ValueError
pipeline_init(env) ==
    LET api_key == os_getenv(env, "ANTHROPIC_API_KEY")
    IN  IF not_str(api_key)
        THEN Raise("ValueError",
                   <<"ANTHROPIC_API_KEY not found in environment variables">>)
        ELSE Return([client |-> [api_key |-> api_key]])

\* what a step of the session did: the class it constructed, if any, the
\* outcome of the construction, whether this was in the handler of a click,
\* and how many pipeline operations had run before
StepA(op, class, out, in_request) ==
    [op |-> op, constructed |-> class, out |-> out, in_request |-> in_request,
     ops_before |-> opsA]

\* the process starts with some environment
StartProcess ==
    /\ pcA = "off"
    /\ \E env \in Environments : envA' = env
    /\ pcA' = "running"
    /\ UNCHANGED <<qaA, checksA, opsA, usedA, lastA>>

\* a run of the script for a session without Q&A engine:
\* initialize_session_state constructs one; an exception ends the run
LoadPage ==
    /\ pcA = "running" /\ qaA = None
    /\ checksA < MaxClicks
    /\ LET r == pipeline_init(envA)
       IN  /\ qaA' = IF Raised(r) THEN None ELSE r.value
           /\ lastA' = StepA("load_page", "InteractiveQA", r, FALSE)
    /\ checksA' = checksA + 1
    /\ UNCHANGED <<envA, pcA, opsA, usedA>>

\* a click on a button whose handler constructs a pipeline object and runs
\* its operation, which calls the Gateway with the client of the object
ClickAndConstruct(op, class) ==
    /\ pcA = "running" /\ qaA # None
    /\ checksA < MaxClicks /\ opsA < MaxClicks
    /\ LET r == pipeline_init(envA)
       IN  /\ opsA' = IF Raised(r) THEN opsA ELSE opsA + 1
           /\ usedA' = IF Raised(r) THEN usedA
                       ELSE usedA \cup {r.value.client.api_key}
           /\ lastA' = StepA(op, class, r, TRUE)
    /\ checksA' = checksA + 1
    /\ UNCHANGED <<envA, pcA, qaA>>
ClickExtract == ClickAndConstruct("extract_methods", "MethodExtractor")
ClickGenerate == ClickAndConstruct("generate_code_from_methods", "CodeGenerator")

\* a click on Ask Question: the engine of the session calls the Gateway
ClickAsk ==
    /\ pcA = "running" /\ qaA # None
    /\ opsA < MaxClicks
    /\ opsA' = opsA + 1
    /\ usedA' = usedA \cup {qaA.client.api_key}
    /\ lastA' = StepA("ask_question", "none", NoOutcome, TRUE)
    /\ UNCHANGED <<envA, pcA, qaA, checksA>>

\* a click on Reset Session: a new Q&A engine replaces the old one
ResetSession ==
    /\ pcA = "running" /\ qaA # None
    /\ checksA < MaxClicks
    /\ LET r == pipeline_init(envA)
       IN  /\ qaA' = IF Raised(r) THEN qaA ELSE r.value
           /\ lastA' = StepA("reset_session", "InteractiveQA", r, TRUE)
    /\ checksA' = checksA + 1
    /\ UNCHANGED <<envA, pcA, opsA, usedA>>

NextApp ==
    /\ \/ StartProcess
       \/ LoadPage
       \/ ClickExtract
       \/ ClickGenerate
       \/ ClickAsk
       \/ ResetSession
    /\ UNCHANGED <<varsE, varsG, varsQ, varsS>>
SpecApp == Init /\ [][NextApp]_vars

\* a step constructed a pipeline object
Constructed == lastA.op # "none" /\ lastA.constructed # "none"

\* C18 (the claim as stated): a construction without credential fails with
\* the configuration error and leaves no instance; no Gateway call is made
\* without a credential; the credential is checked once, before any pipeline
\* operation has run and not in the handling of a user request.
C18_CredentialCheckedOnce ==
    /\ (Constructed /\ not_str(os_getenv(envA, "ANTHROPIC_API_KEY"))) =>
        /\ lastA.out.kind = "raise" /\ lastA.out.type = "ValueError"
        /\ qaA = None
    /\ \A api_key \in usedA : ~not_str(api_key)
    /\ checksA <= 1
    /\ Constructed => (~lastA.in_request /\ lastA.ops_before = 0)

(***************************************************************************)
(* The three pipelines side by side: one extract_methods call, one         *)
(* generate_code_from_methods call and an engine that is asked questions.  *)
(***************************************************************************)
CallReplies == {<<TObj(FullObject)>>, <<TProse>>}
CallMethodLists == {methods \in MethodLists : Len(methods) \in {0, MaxMethods}}
CallGenerationReplies == {<<TextLine("library(stats)")>>}
CallContexts ==
    {<<Paper("P1"), FullExtraction>>, <<Paper("P2"), NullFindingsExtraction>>}

NextCalls ==
    \/ ExtractMethods(CallReplies) /\ UNCHANGED <<varsG, varsQ, varsA, varsS>>
    \/ GenerateCode(CallMethodLists, CallGenerationReplies)
        /\ UNCHANGED <<varsE, varsQ, varsA, varsS>>
    \/ LoadPaperContext(CallContexts) /\ UNCHANGED <<varsE, varsG, varsA, varsS, snapshot>>
    \/ AskQuestion(MaxAsksQ, {<<"q1">>}) /\ UNCHANGED <<varsE, varsG, varsA, varsS, snapshot>>
SpecCalls == Init /\ [][NextCalls]_vars

\* C19 (the claim as stated): an extract_methods call issues one Gateway
\* call; generate_code_from_methods issues one call per distinct category,
\* one after another in group order, none without methods; an ask_question
\* call with a loaded context issues one call, and what it returns comes
\* from the response to that call, whether a reply or a failure.
C19_SingleAttempt ==
    /\ pcE = "done" => callsE = 1
    /\ pcG = "done" =>
        /\ [i \in 1..Len(callsG) |-> callsG[i].category] = GroupOrder
        /\ MethodsGiven = <<>> => callsG = <<>>
    /\ (lastQ.op = "ask_question" /\ ~NoContext) =>
        /\ lastQ.calls = 1
        /\ lastQ.out =
            IF lastQ.gateway.ok THEN Return(lastQ.gateway.text)
            ELSE Return(<<ERROR_PREFIX>> \o lastQ.gateway.error)


(***************************************************************************)
(* app.py: one browser session.  Streamlit runs the script from top to     *)
(* bottom at every interaction: initialize_session_state, the sidebar and  *)
(* the four sections in order; a button returns True only in the run its   *)
(* click started, and only a button the previous run rendered can be       *)
(* clicked.  The credential is configured.                                 *)
(***************************************************************************)
\* InteractiveQA(): the fields of a new engine
InteractiveQA_init ==
    [paper_metadata |-> None, extracted_methods |-> None,
     conversation_history |-> <<>>]

\* initialize_session_state: every absent key gets its initial value
initialize_session_state(ss) ==
    LET kept(key, initial) == IF key \in ss.keys THEN ss[key] ELSE initial
    IN  [keys |-> SessionKeys,
         paper_metadata |-> kept("paper_metadata", None),
         extracted_methods |-> kept("extracted_methods", None),
         generated_code |-> kept("generated_code", <<>>),
         qa_interface |-> kept("qa_interface", InteractiveQA_init),
         current_step |-> kept("current_step", 1)]

\* mutant of reset_session: current_step is left as it is
reset_session_keeping_step(ss) ==
    [ss EXCEPT !.keys = @ \ {"paper_metadata", "extracted_methods", "generated_code"},
               !.paper_metadata = None, !.extracted_methods = None,
               !.generated_code = <<>>,
               !.qa_interface = InteractiveQA_init]

\* the handler of Reset Session in sidebar, up to st.experimental_rerun()
reset_session(ss) ==
    [ss EXCEPT !.keys = @ \ {"paper_metadata", "extracted_methods", "generated_code"},
               !.paper_metadata = None, !.extracted_methods = None,
               !.generated_code = <<>>,
               !.qa_interface = InteractiveQA_init,
               !.current_step = 1]

\* PaperIngestionEngine.process_pdf_upload of the uploaded file: the paper
\* record, or the exception of a file without extractable text
process_pdf_upload(pdf) ==
    CASE pdf = "p1.pdf" -> Return(Paper("P1"))
      [] pdf = "p2.pdf" -> Return(Paper("P2"))
      [] OTHER -> Raise("Exception", <<"Failed to extract text from PDF">>)

\* paper_ingestion_section, given the local paper_metadata the chosen input
\* method left (None when nothing was submitted or the ingestion failed)
paper_ingestion_section(ss, paper) ==
    IF Truthy(paper)
    THEN [ss EXCEPT !.paper_metadata = paper, !.current_step = 2]
    ELSE ss

\* the one element of a set of one element: The({f(r) : r \in {v}}) is f(v)
\* with v evaluated once
The(S) == CHOOSE x \in S : TRUE

\* mutant of method_extraction_section: a failed extraction discards the
\* stored result
method_extraction_section_discarding(ss, clicked, gw) ==
    IF ~Truthy(ss.paper_metadata)
    THEN [ss |-> ss, rendered |-> {}, calls |-> 0, outcome |-> NoOutcome]
    ELSE IF clicked
    THEN The({[ss |-> IF Raised(r)
                     THEN [ss EXCEPT !.extracted_methods = None, !.current_step = 2]
                     ELSE [ss EXCEPT !.extracted_methods = r.value,
                                     !.current_step = 3],
              rendered |-> {"extract_methods"},
              calls |-> Len(extract_methods_calls(gw)),
              outcome |-> r] : r \in {extract_methods(gw)}})
    ELSE [ss |-> ss, rendered |-> {"extract_methods"}, calls |-> 0,
          outcome |-> NoOutcome]

\* mutant of method_extraction_section: no paper is required
method_extraction_section_unguarded(ss, clicked, gw) ==
    IF clicked
    THEN The({[ss |-> IF Raised(r) THEN ss
                     ELSE [ss EXCEPT !.extracted_methods = r.value,
                                     !.current_step = 3],
              rendered |-> {"extract_methods"},
              calls |-> Len(extract_methods_calls(gw)),
              outcome |-> r] : r \in {extract_methods(gw)}})
    ELSE [ss |-> ss, rendered |-> {"extract_methods"}, calls |-> 0,
          outcome |-> NoOutcome]

\* method_extraction_section, given whether its button was clicked and what
\* the Gateway does: the session state it leaves, the button it rendered, the
\* Gateway calls it made and the outcome of extract_methods
method_extraction_section(ss, clicked, gw) ==
    IF ~Truthy(ss.paper_metadata)
    THEN [ss |-> ss, rendered |-> {}, calls |-> 0, outcome |-> NoOutcome]
    ELSE IF clicked
    THEN The({[ss |-> IF Raised(r) THEN ss
                     ELSE [ss EXCEPT !.extracted_methods = r.value,
                                     !.current_step = 3],
              rendered |-> {"extract_methods"},
              calls |-> Len(extract_methods_calls(gw)),
              outcome |-> r] : r \in {extract_methods(gw)}})
    ELSE [ss |-> ss, rendered |-> {"extract_methods"}, calls |-> 0,
          outcome |-> NoOutcome]

\* code_generation_section, given whether its button was clicked, the
\* language selected and what the Gateway does for each category
code_generation_section(ss, clicked, language, gw) ==
    IF ~Truthy(ss.extracted_methods)
    THEN [ss |-> ss, rendered |-> {}, calls |-> 0, outcome |-> NoOutcome]
    ELSE IF clicked
    THEN The({[ss |-> IF Raised(r.out) THEN ss
                      ELSE [ss EXCEPT !.generated_code = r.out.value,
                                      !.current_step = 4],
               rendered |-> {"generate_code"},
               calls |-> Len(r.calls),
               outcome |-> r.out] :
              r \in {generate_code_from_methods(ss.extracted_methods, language, gw)}})
    ELSE [ss |-> ss, rendered |-> {"generate_code"}, calls |-> 0,
          outcome |-> NoOutcome]

\* qa_interface_section, given whether Ask Question was clicked with a
\* question and what the Gateway does for the suggestions and the question:
\* the context is loaded and the suggestions are requested in every run; an
\* exception of ask_question ends the run
qa_interface_section(ss, clicked, question, gwS, gwA, clock) ==
    IF ~Truthy(ss.paper_metadata) \/ ~Truthy(ss.extracted_methods)
    THEN [ss |-> ss, rendered |-> {}, suggest_calls |-> 0, ask_calls |-> 0,
          outcome |-> NoOutcome, prompt |-> None, answered |-> FALSE]
    ELSE LET loaded == [ss.qa_interface EXCEPT
                            !.paper_metadata = ss.paper_metadata,
                            !.extracted_methods = ss.extracted_methods]
             s == suggest_questions(loaded.paper_metadata,
                                    loaded.extracted_methods, gwS)
             a == ask_question(loaded.paper_metadata, loaded.extracted_methods,
                               loaded.conversation_history, clock, question, gwA)
         IN  IF clicked
             THEN [ss |-> [ss EXCEPT !.qa_interface =
                            [loaded EXCEPT !.conversation_history = a.history]],
                   rendered |-> {"ask_question"},
                   suggest_calls |-> s.calls, ask_calls |-> a.calls,
                   outcome |-> a.out, prompt |-> a.prompt,
                   answered |-> a.calls = 1 /\ gwA.ok]
             ELSE [ss |-> [ss EXCEPT !.qa_interface = loaded],
                   rendered |-> {"ask_question"},
                   suggest_calls |-> s.calls, ask_calls |-> 0,
                   outcome |-> NoOutcome, prompt |-> None, answered |-> FALSE]

\* what starts a run: the button clicked, if any, with what the run will
\* meet (the paper fetched, the Gateway's behaviour, the inputs of the user)
Trigger(click, fetched, e, language, g, question, s, a) ==
    [click |-> click, fetched |-> fetched, gwE |-> e, language |-> language,
     gwG |-> g, question |-> question, gwS |-> s, gwA |-> a]

\* a Gateway call of a run: its stage and what the session held when it was
\* made
Call(stage, ss, done) ==
    [stage |-> stage,
     paper |-> Truthy(ss.paper_metadata),
     extracted |-> Truthy(ss.extracted_methods),
     engine_context |-> /\ Truthy(ss.qa_interface.paper_metadata)
                        /\ Truthy(ss.qa_interface.extracted_methods),
     completed |-> done.completed]
Calls(n, stage, ss, done) == [i \in 1..n |-> Call(stage, ss, done)]

\* main() up to the sections: initialize_session_state and the sidebar; the
\* rerun after a reset starts from the state the handler left
main_start(ss, click) ==
    IF click = "reset"
    THEN initialize_session_state(reset_session(initialize_session_state(ss)))
    ELSE initialize_session_state(ss)

\* the local paper_metadata of paper_ingestion_section: the paper of the
\* uploaded file, or what Fetch Paper got, or None
local_paper_metadata(uploaded, t) ==
    IF uploaded # NoUpload
    THEN IF Raised(process_pdf_upload(uploaded)) THEN None
         ELSE process_pdf_upload(uploaded).value
    ELSE IF t.click = "fetch" THEN t.fetched ELSE None

\* what one run of main() leaves, given what its sections returned: s2 after
\* the ingestion, e, g and q of the extraction, the generation and the Q&A
main_end(t, clock, done, paper, s2, e, g, q) ==
    LET d1 == IF t.click = "reset" THEN NothingDone ELSE done
        d2 == IF Truthy(paper)
              THEN [d1 EXCEPT !.completed = @ \cup {"ingestion"}] ELSE d1
        d3 == IF e.calls > 0 /\ ~Raised(e.outcome)
              THEN [completed |-> d2.completed \cup {"extraction"},
                    extracted_from |-> s2.paper_metadata]
              ELSE d2
        loaded == [g.ss EXCEPT !.qa_interface = q.ss.qa_interface]
    IN  [ss |-> q.ss,
         clock |-> IF q.answered THEN clock + 1 ELSE clock,
         done |-> d3,
         last |-> [click |-> t.click,
                   ingested |-> paper,
                   rendered |-> {"reset", "fetch"} \cup e.rendered
                                    \cup g.rendered \cup q.rendered,
                   calls |-> Calls(e.calls, "extraction", s2, d2)
                             \o Calls(g.calls, "generation", e.ss, d3)
                             \o Calls(q.suggest_calls, "suggest", loaded, d3)
                             \o Calls(q.ask_calls, "ask", loaded, d3),
                   extraction |-> e.outcome,
                   generation |-> g.outcome,
                   generated_from |->
                        IF g.calls > 0 \/ g.outcome # NoOutcome
                        THEN [paper |-> e.ss.paper_metadata,
                              extracted_from |-> d3.extracted_from]
                        ELSE None,
                   ask |-> q.outcome,
                   prompt |-> q.prompt]]

(***************************************************************************)
(* Inputs of a session.                                                    *)
(***************************************************************************)
Uploads == {"p1.pdf", "p2.pdf", "scan.pdf"}
\* what Fetch Paper leaves in the local paper_metadata: a paper, or None
\* after an error
Fetched == {None, Paper("P1"), Paper("P2")}
SessionExtractionGateway ==
    {GatewayFailure, GatewayReply(<<TProse>>), GatewayReply(<<TObj(FullObject)>>),
     GatewayReply(<<TObj(NullFindingsObject)>>)}
SessionGenerationGateway(em) ==
    [CategoriesOf(em.computational_methods) ->
        {GatewayFailure, GatewayReply(<<TextLine("library(stats)")>>)}]
NoGateway == GatewayFailure
NoClick ==
    Trigger("none", None, NoGateway, "python", <<>>, <<>>, NoGateway, NoGateway)

\* main(): the run with trigger t, the four sections one after another
Run(uploaded, t) ==
    \E paper \in {local_paper_metadata(uploaded, t)} :
    \E s2 \in {paper_ingestion_section(main_start(session_state, t.click), paper)} :
    \E e \in {method_extraction_section(s2, t.click = "extract", t.gwE)} :
    \E g \in {code_generation_section(e.ss, t.click = "generate", t.language,
                                      t.gwG)} :
    \E q \in {qa_interface_section(g.ss, t.click = "ask", t.question, t.gwS,
                                   t.gwA, nowS)} :
    \E r \in {main_end(t, nowS, doneS, paper, s2, e, g, q)} :
        /\ session_state' = r.ss
        /\ uploaded_file' = uploaded
        /\ nowS' = r.clock
        /\ doneS' = r.done
        /\ lastS' = r.last

\* the user opens the page
OpenPage ==
    /\ lastS = NoRun
    /\ \E gwS \in SuggestGateway : Run(uploaded_file, [NoClick EXCEPT !.gwS = gwS])

\* the user puts a file into the uploader, replaces it or removes it
UploadPDF ==
    /\ lastS # NoRun
    /\ \E pdf \in (Uploads \cup {NoUpload}) \ {uploaded_file}, gwS \in SuggestGateway :
        Run(pdf, [NoClick EXCEPT !.gwS = gwS])

\* a click on Fetch Paper under PubMed ID or DOI; the uploader is not shown
FetchPaper ==
    /\ lastS # NoRun /\ uploaded_file = NoUpload
    /\ \E paper \in Fetched, gwS \in SuggestGateway :
        Run(NoUpload, [NoClick EXCEPT !.click = "fetch", !.fetched = paper,
                                      !.gwS = gwS])

\* a click on Extract Computational Methods
ExtractClicked ==
    /\ lastS # NoRun /\ "extract_methods" \in lastS.rendered
    /\ \E gw \in SessionExtractionGateway, gwS \in SuggestGateway :
        Run(uploaded_file, [NoClick EXCEPT !.click = "extract", !.gwE = gw,
                                           !.gwS = gwS])

\* a click on Generate Code
GenerateClicked ==
    /\ lastS # NoRun /\ "generate_code" \in lastS.rendered
    /\ \E language \in Languages,
          gw \in SessionGenerationGateway(session_state.extracted_methods),
          gwS \in SuggestGateway :
        Run(uploaded_file, [NoClick EXCEPT !.click = "generate",
                                           !.language = language, !.gwG = gw,
                                           !.gwS = gwS])

\* a click on Ask Question with a question typed; at most MaxAsksQ questions
\* are answered
AskClicked ==
    /\ lastS # NoRun /\ "ask_question" \in lastS.rendered
    /\ \E gw \in AskGateway, gwS \in SuggestGateway :
        /\ gw.ok => nowS <= MaxAsksQ
        /\ Run(uploaded_file, [NoClick EXCEPT !.click = "ask",
                                              !.question = <<"q1">>, !.gwA = gw,
                                              !.gwS = gwS])

\* a click on Reset Session and the run it ends with
ResetClicked ==
    /\ lastS # NoRun
    /\ \E gwS \in SuggestGateway :
        Run(uploaded_file, [NoClick EXCEPT !.click = "reset", !.gwS = gwS])

NextSession ==
    /\ \/ OpenPage
       \/ UploadPDF
       \/ FetchPaper
       \/ ExtractClicked
       \/ GenerateClicked
       \/ AskClicked
       \/ ResetClicked
    /\ UNCHANGED <<varsE, varsG, varsQ, varsA>>
SpecSession == Init /\ [][NextSession]_vars

(***************************************************************************)
(* Properties of the session (SpecSession).                                *)
(***************************************************************************)
Started == lastS # NoRun

\* C24 (the claim as stated): the extraction result the session holds was
\* extracted from the paper the session holds, and so were the result a
\* code generation was given and the result a Q&A prompt was built from.
C24_ExtractionOfLoadedPaper ==
    Started =>
        /\ Truthy(session_state.extracted_methods) =>
                doneS.extracted_from = session_state.paper_metadata
        /\ lastS.generated_from # None =>
                lastS.generated_from.extracted_from = lastS.generated_from.paper
        /\ lastS.prompt # None =>
                /\ lastS.prompt.title = session_state.paper_metadata.title
                /\ doneS.extracted_from = session_state.paper_metadata

\* C26: after every run of the script current_step is in 1..4, from 2 on a
\* paper is loaded, and from 3 on an extraction result is present.
C26_ProgressMarker ==
    Started =>
        /\ session_state.current_step \in 1..4
        /\ session_state.current_step >= 2 => Truthy(session_state.paper_metadata)
        /\ session_state.current_step >= 3 => Truthy(session_state.extracted_methods)

\* C26 witness: after code was generated an extraction failed; the marker is
\* still 4 with the paper, the earlier result and the scripts in place.
C26_Witness ==
    /\ Started
    /\ lastS.click = "extract" /\ Raised(lastS.extraction)
    /\ session_state.current_step = 4
    /\ session_state.generated_code # <<>>
    /\ Truthy(session_state.paper_metadata)
    /\ Truthy(session_state.extracted_methods)

\* C27: every Gateway call of a run is made with what its stage depends on
\* in the session and completed since the session was new or reset: a paper
\* for extraction, an extraction result for code generation, both for the
\* suggestions and the questions of the Q&A engine, which holds a context
\* only while the session holds both.
C27_StagesGated ==
    Started =>
        /\ \A i \in 1..Len(lastS.calls) :
            LET call == lastS.calls[i]
            IN  /\ call.stage = "extraction" =>
                    call.paper /\ "ingestion" \in call.completed
                /\ call.stage = "generation" =>
                    call.extracted /\ "extraction" \in call.completed
                /\ call.stage \in {"suggest", "ask"} =>
                    /\ call.paper /\ call.extracted /\ call.engine_context
                    /\ {"ingestion", "extraction"} \subseteq call.completed
        /\ (\/ Truthy(session_state.qa_interface.paper_metadata)
            \/ Truthy(session_state.qa_interface.extracted_methods)) =>
                /\ Truthy(session_state.paper_metadata)
                /\ Truthy(session_state.extracted_methods)

\* C27 witness: a question was asked; the run called the Gateway for the
\* suggestions and for the question, after ingestion and extraction.
C27_Witness ==
    /\ Started /\ lastS.click = "ask"
    /\ Len(lastS.calls) = 2
    /\ lastS.calls[1].stage = "suggest" /\ lastS.calls[2].stage = "ask"
    /\ lastS.calls[2].completed = {"ingestion", "extraction"}
    /\ session_state.qa_interface.conversation_history # <<>>

\* the part of the session state a section can replace
Held(ss) ==
    <<ss.paper_metadata, ss.extracted_methods, ss.generated_code, ss.current_step>>

\* C28: a run in which Extract Computational Methods was clicked and the
\* extraction failed leaves paper, extraction result, scripts and
\* current_step as the extraction section found them (as the run found them
\* when the run ingested nothing); an extraction that succeeds stores its
\* result and sets current_step to 3, and nothing else stores a new result
\* or moves current_step to 3.
C28_FailedExtractionKeepsState ==
    [][/\ lastS'.click = "extract" =>
            LET found == paper_ingestion_section(
                            initialize_session_state(session_state),
                            lastS'.ingested)
            IN  /\ lastS'.extraction.kind \in {"raise", "return"}
                /\ Raised(lastS'.extraction) =>
                    /\ Held(session_state') = Held(found)
                    /\ lastS'.ingested = None =>
                            Held(session_state') = Held(session_state)
                /\ ~Raised(lastS'.extraction) =>
                    /\ session_state'.extracted_methods = lastS'.extraction.value
                    /\ session_state'.current_step = 3
       /\ (\/ /\ Truthy(session_state'.extracted_methods)
               /\ session_state'.extracted_methods # session_state.extracted_methods
           \/ /\ session_state'.current_step = 3
               /\ session_state.current_step # 3) =>
            /\ lastS'.click = "extract"
            /\ lastS'.extraction.kind = "return"]_vars

\* C28 witness: with a fetched paper and a stored result, a second extraction
\* failed; the result is still there and current_step is still 3.
C28_Witness ==
    /\ Started
    /\ lastS.click = "extract" /\ Raised(lastS.extraction)
    /\ uploaded_file = NoUpload
    /\ session_state.extracted_methods = FullExtraction
    /\ session_state.generated_code = <<>>
    /\ session_state.current_step = 3

(***************************************************************************)
(* Properties of the template selection (SpecTemplate).                    *)
(***************************************************************************)
OwnTemplate == {"statistical_analysis", "machine_learning", "bioinformatics"}

\* C21: the call does not raise whatever the categories are, and the prompt
\* of every category carries a template: its own for statistical_analysis,
\* machine_learning and bioinformatics, the statistical_analysis template for
\* every other category.
C21_TemplateSelectionTotal ==
    pcG = "done" =>
        /\ outG.kind = "return"
        /\ {callsG[i].category : i \in 1..Len(callsG)}
                = CategoriesOf(inG.extracted_methods.computational_methods)
        /\ \A i \in 1..Len(callsG) :
                callsG[i].template =
                    IF callsG[i].category \in OwnTemplate
                    THEN templates[callsG[i].category]
                    ELSE templates["statistical_analysis"]

\* C21 witness: a call for an unmapped category and a category mapped to
\* another template, both with the statistical_analysis template.
C21_Witness ==
    /\ pcG = "done" /\ outG.kind = "return"
    /\ Len(callsG) = 2
    /\ callsG[1].category = "proteomics"
    /\ callsG[2].category = "image_analysis"
    /\ callsG[1].template = templates["statistical_analysis"]
    /\ callsG[2].template = templates["statistical_analysis"]

====
